---- MODULE Spec2Model ----
(***************************************************************************)
(* The reconciliation engine of the control plane                          *)
(* (control-plane/reconciler/reconciler.py): one ReconciliationEngine that *)
(* fetches the desired state from the API database, discovers the actual   *)
(* state on the representative leaf switch, plans corrective actions,      *)
(* executes them by priority and retries the failed ones.                  *)
(***************************************************************************)
EXTENDS Integers, Sequences, FiniteSets, Bags, TLC

VARIABLES
    vpc_rows,         \* table "vpcs" of the API database: id -> status, or NoRow
    route_rows,       \* table "routes": the set of route ids present
    fabric,           \* per switch: VRF devices, VXLAN devices, FORWARD chain
    reachable,        \* the switches whose container _get_container finds
    vrf_supported,    \* the switches whose kernel accepts "type vrf" links
    hash_collisions,  \* pairs of distinct frozensets that hash() maps together
    pending_actions,  \* ReconciliationEngine.pending_actions
    pc,               \* position of run()/reconcile(): sleep, main, pending, return
    desired,          \* reconcile(): desired_state
    actual,           \* reconcile(): actual_state
    actions,          \* reconcile(): sorted(actions, key=priority)
    idx,              \* position of the running for loop (1-based)
    remaining,        \* _process_pending_actions(): remaining
    result,           \* reconcile(): result
    log,              \* history: what the current cycle attempted, in order
    dropped,          \* history: actions the current cycle gave up on
    realized,         \* history: resource ids whose CREATE action has succeeded
    faults,           \* history: faults injected so far (retries fail freely)
    api_calls,        \* history: writes the API made to the database
    netlink,          \* NetlinkManager: namespaces, vxlan_devices, veth_pairs
    kernel,           \* the host's network state the ip commands act on
    config_texts,     \* diff_configs(): the arguments current and desired
    commands,         \* diff_configs(): the commands returned, as a bag
    inventory,        \* DeviceOnboarding.inventory: MAC -> device record
    last_call,        \* history: the last library call, the exception it raised
    vni_counter,      \* table "vni_counter": the rows' current, in id order
    db_sessions,      \* get_next_vni(): each session's position, and the
                      \* values returned so far, in the order of return
    run_loop          \* run()/stop(): self.running, the position of the thread
                      \* of run(), metrics["cycles"]; history: the iterations
                      \* of the loop, stop() called, iterations begun since

vars == <<vpc_rows, route_rows, fabric, reachable, vrf_supported, hash_collisions,
          pending_actions, pc, desired, actual, actions, idx,
          remaining, result, log, dropped, realized, faults, api_calls,
          netlink, kernel, config_texts, commands, inventory, last_call,
          vni_counter, db_sessions, run_loop>>

engine_vars == <<vpc_rows, route_rows, fabric, reachable, vrf_supported,
                 hash_collisions, pending_actions, pc, desired, actual, actions,
                 idx, remaining, result, log, dropped, realized, faults, api_calls>>

\* The state of the libraries the engine does not call: the NetlinkManager
\* singleton with the host it configures, and the ConfigGenerator and
\* DeviceOnboarding singletons.
netlink_vars == <<netlink, kernel>>
vni_vars == <<vni_counter, db_sessions>>
device_vars == <<config_texts, commands, inventory, last_call, vni_vars>>
run_vars == <<run_loop>>
component_vars == <<netlink_vars, device_vars, run_vars>>

(***************************************************************************)
(* Bounds of the model.                                                    *)
(***************************************************************************)
\* Faults that are injected: a failing fetch, discovery query or planning, and
\* the first failure of an action.  A retry of a failed action may fail again
\* without counting.
MaxFaults == 1
\* Writes of the API threads to the database.
MaxApiCalls == 1

(***************************************************************************)
(* Program constants.                                                      *)
(***************************************************************************)
max_retries == 3
FirstVni == 1003

VpcIds == {"vpc-a", "vpc-b"}
\* The order in which db.query(VPCModel).all() returns the rows.
VpcOrder == <<"vpc-a", "vpc-b">>
RouteIds == {"rtb-1"}
RouteOrder == <<"rtb-1">>
switches == <<"leaf-1", "leaf-2", "leaf-3">>
SwitchSet == {switches[i] : i \in 1..Len(switches)}

NoRow == "absent"
Statuses == {"provisioning", "available", "deleting"}

Name(v) == IF v = "vpc-a" THEN "tenant-a" ELSE "tenant-b"
Cidr(v) == IF v = "vpc-a" THEN "10.1.0.0/16" ELSE "10.2.0.0/16"
Vni(v) == IF v = "vpc-a" THEN FirstVni ELSE FirstVni + 1
VrfName(v) == IF v = "vpc-a" THEN "VRF-vpc-a" ELSE "VRF-vpc-b"
TunnelId(vni) == IF vni = FirstVni THEN "vni-1003" ELSE "vni-1004"
VrfNames == {VrfName(v) : v \in VpcIds}
Vnis == {Vni(v) : v \in VpcIds}

EmptyMap == [k \in {} |-> k]

\* Python dict iteration: the keys of m in the order `order` lists them.
KeysInOrder(m, order) == SelectSeq(order, LAMBDA k : k \in DOMAIN m)

(***************************************************************************)
(* _state_hash: hash(frozenset(state.items())).  Equal item sets hash      *)
(* equal; which distinct item sets collide is fixed for the process and    *)
(* recorded in hash_collisions.  The hash value is modelled by the class   *)
(* of item sets sharing it.                                                *)
(***************************************************************************)
Items(state) == {<<k, state[k]>> : k \in DOMAIN state}

StateHash(state) ==
    {Items(state)} \cup {X \in UNION hash_collisions :
                            {X, Items(state)} \in hash_collisions}

(***************************************************************************)
(* _fetch_desired_state                                                    *)
(***************************************************************************)
VpcData(v, status) ==
    [id |-> v, name |-> Name(v), cidr |-> Cidr(v), vni |-> Vni(v),
     vrf |-> VrfName(v), status |-> status]

RouteData(r) ==
    [id |-> r, vpc_id |-> "vpc-a", destination |-> "0.0.0.0/0",
     next_hop |-> "igw-1", next_hop_type |-> "internet_gateway"]

FetchDesiredState(rows, routes) ==
    LET present == {v \in VpcIds : rows[v] # NoRow} IN
    [vpcs |-> [v \in present |-> VpcData(v, rows[v])],
     routes |-> [r \in routes |-> RouteData(r)],
     vxlan_tunnels |->
        [t \in {TunnelId(Vni(v)) : v \in present} |->
            LET v == CHOOSE w \in present : TunnelId(Vni(w)) = t
            IN [vni |-> Vni(v), vpc_id |-> v]]]

(***************************************************************************)
(* _discover_actual_state.  `query` is what the calls against leaf-1 do:   *)
(*   "ok"            every call returns                                    *)
(*   "link_raises"   exec_run("ip -d -j link show") or json.loads raises   *)
(*   "link_nonzero"  the link query returns a non-zero exit code           *)
(*   "rules_raises"  exec_run("iptables -S FORWARD") or its decoding raises*)
(***************************************************************************)
DiscoveryQueries == {"ok", "link_raises", "link_nonzero", "rules_raises"}
DiscoveryRaises(query) == query \in {"link_raises", "rules_raises"}
DiscoveryFault(query) == query # "ok"

EmptyState == [vpcs |-> EmptyMap, routes |-> EmptyMap, vxlan_tunnels |-> EmptyMap]

\* A rule of the FORWARD chain as iptables -S prints it:
\* "-A FORWARD [-s src] [-d dst] -j target"; src or dst = "" when the rule
\* has no -s or no -d.
\* The text of a rule is searched for two substrings (lines 272-273).
RuleMentions(rule, cidr) ==
    \* "-A FORWARD -d {cidr} -j REJECT"
    \/ (rule.src = "" /\ rule.dst = cidr /\ rule.target = "REJECT")
    \* "-A FORWARD -s {cidr}", whatever follows it
    \/ rule.src = cidr

LinksOf(node) ==
    [vpcs |-> [n \in node.vrfs |-> [id |-> n, status |-> "up"]],
     routes |-> EmptyMap,
     vxlan_tunnels |->
        [t \in {TunnelId(n) : n \in node.vxlans} |->
            [vni |-> CHOOSE n \in node.vxlans : TunnelId(n) = t, status |-> "up"]]]

DiscoverEveryNode(des, fab, up, query) ==
    IF "leaf-1" \notin up THEN EmptyState
    ELSE IF query = "link_raises" THEN EmptyState
    ELSE
        LET node == [vrfs |-> UNION {fab[s].vrfs : s \in up},
                     vxlans |-> UNION {fab[s].vxlans : s \in up},
                     rules |-> fab["leaf-1"].rules]
            links == IF query = "link_nonzero" THEN EmptyState ELSE LinksOf(node)
            rules == {node.rules[i] : i \in 1..Len(node.rules)}
            avail == {v \in DOMAIN des.vpcs :
                        \/ \E rule \in rules : RuleMentions(rule, des.vpcs[v].cidr)
                        \/ des.vpcs[v].vrf \in DOMAIN links.vpcs}
        IN  IF query = "rules_raises" THEN links
            ELSE [links EXCEPT !.vpcs =
                    [k \in DOMAIN links.vpcs \cup avail |->
                        IF k \in avail THEN [id |-> k, status |-> "available"]
                        ELSE links.vpcs[k]]]

DiscoverActualState(des, fab, up, query) ==
    IF "leaf-1" \notin up THEN EmptyState
    ELSE IF query = "link_raises" THEN EmptyState
    ELSE
        LET node == fab["leaf-1"]
            links == IF query = "link_nonzero" THEN EmptyState ELSE LinksOf(node)
            rules == {node.rules[i] : i \in 1..Len(node.rules)}
            avail == {v \in DOMAIN des.vpcs :
                        \/ \E rule \in rules : RuleMentions(rule, des.vpcs[v].cidr)
                        \/ des.vpcs[v].vrf \in DOMAIN links.vpcs}
        IN  IF query = "rules_raises" THEN links
            ELSE [links EXCEPT !.vpcs =
                    [k \in DOMAIN links.vpcs \cup avail |->
                        IF k \in avail THEN [id |-> k, status |-> "available"]
                        ELSE links.vpcs[k]]]

(***************************************************************************)
(* _compute_diff                                                           *)
(***************************************************************************)
Action(atype, rtype, rid, target, prio) ==
    [action_type |-> atype, resource_type |-> rtype, resource_id |-> rid,
     target_state |-> target, priority |-> prio, retries |-> 0,
     max_retries |-> max_retries, attempts |-> 0]

RECURSIVE FlatMap(_, _)
FlatMap(F(_), seq) ==
    IF seq = <<>> THEN <<>> ELSE F(Head(seq)) \o FlatMap(F, Tail(seq))

VpcCheckAlwaysUpdate(des, act, v) ==
    IF v \notin DOMAIN act.vpcs
    THEN <<Action("create", "vpc", v, des.vpcs[v], 10)>>
    ELSE <<Action("update", "vpc", v, des.vpcs[v], 20)>>

VpcCheck(des, act, v) ==
    IF v \notin DOMAIN act.vpcs
    THEN <<Action("create", "vpc", v, des.vpcs[v], 10)>>
    ELSE IF StateHash(des.vpcs[v]) # StateHash(act.vpcs[v])
    THEN <<Action("update", "vpc", v, des.vpcs[v], 20)>>
    ELSE <<>>

TunnelCheck(des, act, t) ==
    IF t \notin DOMAIN act.vxlan_tunnels
    THEN <<Action("create", "vxlan_tunnel", t, des.vxlan_tunnels[t], 30)>>
    ELSE <<>>

VrfCheckNone(des, act, v) == <<>>

VrfCheckById(des, act, v) ==
    IF des.vpcs[v].vrf = "" THEN <<>>
    ELSE IF v \notin DOMAIN act.vpcs
    THEN <<Action("create", "vrf", des.vpcs[v].vrf, des.vpcs[v], 25)>>
    ELSE <<>>

VrfCheck(des, act, v) ==
    IF des.vpcs[v].vrf = "" THEN <<>>
    ELSE IF v \notin DOMAIN act.vpcs /\ des.vpcs[v].vrf \notin DOMAIN act.vpcs
    THEN <<Action("create", "vrf", des.vpcs[v].vrf, des.vpcs[v], 25)>>
    ELSE <<>>

DeleteCheckById(des, act, k) ==
    IF k \notin DOMAIN des.vpcs
    THEN <<Action("delete", "vpc", k, EmptyMap, 200)>>
    ELSE <<>>

DeleteCheck(des, act, k) ==
    IF k \notin DOMAIN des.vpcs /\ k \notin {des.vpcs[v].vrf : v \in DOMAIN des.vpcs}
    THEN <<Action("delete", "vpc", k, EmptyMap, 200)>>
    ELSE <<>>

RouteCheckUnrealized(des, act, r) ==
    IF r \notin DOMAIN act.routes /\ r \notin realized
    THEN <<Action("create", "route", r, des.routes[r], 50)>>
    ELSE <<>>

RouteCheck(des, act, r) ==
    IF r \notin DOMAIN act.routes
    THEN <<Action("create", "route", r, des.routes[r], 50)>>
    ELSE <<>>

\* The keys of actual["vpcs"] in insertion order: the VRF links, then the
\* available VPC ids.
ActualVpcOrder == <<"VRF-vpc-a", "VRF-vpc-b">> \o VpcOrder
TunnelOrder == <<"vni-1003", "vni-1004">>

ComputeDiff(des, act) ==
    FlatMap(LAMBDA v : VpcCheck(des, act, v), KeysInOrder(des.vpcs, VpcOrder))
    \o FlatMap(LAMBDA t : TunnelCheck(des, act, t),
               KeysInOrder(des.vxlan_tunnels, TunnelOrder))
    \o FlatMap(LAMBDA v : VrfCheck(des, act, v), KeysInOrder(des.vpcs, VpcOrder))
    \o FlatMap(LAMBDA k : DeleteCheck(des, act, k),
               KeysInOrder(act.vpcs, ActualVpcOrder))
    \o FlatMap(LAMBDA r : RouteCheck(des, act, r), KeysInOrder(des.routes, RouteOrder))

(***************************************************************************)
(* sorted(actions, key=lambda a: a.priority): a stable sort.               *)
(***************************************************************************)
RECURSIVE InsertByPriority(_, _)
InsertByPriority(a, sorted) ==
    IF sorted = <<>> THEN <<a>>
    ELSE IF Head(sorted).priority <= a.priority
    THEN <<Head(sorted)>> \o InsertByPriority(a, Tail(sorted))
    ELSE <<a>> \o sorted

RECURSIVE SortFrom(_, _)
SortFrom(seq, sorted) ==
    IF seq = <<>> THEN sorted
    ELSE SortFrom(Tail(seq), InsertByPriority(Head(seq), sorted))

Unsorted(seq) == seq

SortedByPriority(seq) == SortFrom(seq, <<>>)

(***************************************************************************)
(* _execute_action and the _apply_*_action methods: the effect on the      *)
(* fabric of an execution that does not raise.  Every per-switch failure   *)
(* (container missing, command exit code # 0) is caught inside the method. *)
(* The exception that is injected into an execution is raised by the first *)
(* statement of _execute_action (the print of lines 395-397), before any   *)
(* command is issued: an execution that raises has changed nothing.        *)
(***************************************************************************)
\* "iptables -I FORWARD -s {src} -d {dst} -j REJECT" (lines 433-438).
RejectRule(src, dst) == [src |-> src, dst |-> dst, target |-> "REJECT"]

\* iptables -I FORWARD: insert at the head of the chain.
InsertRule(rules, rule) == <<rule>> \o rules

RECURSIVE IsolateOneWay(_, _, _)
IsolateOneWay(rules, cidr, others) ==
    IF others = <<>> THEN rules
    ELSE IsolateOneWay(InsertRule(rules, RejectRule(cidr, Head(others))),
                       cidr, Tail(others))

RECURSIVE IsolateFrom(_, _, _)
IsolateFrom(rules, cidr, others) ==
    IF others = <<>> THEN rules
    ELSE IsolateFrom(
            InsertRule(InsertRule(rules, RejectRule(cidr, Head(others))),
                       RejectRule(Head(others), cidr)),
            cidr, Tail(others))

ApplyVpcAction(action, fab, up, rows, routes) ==
    IF action.action_type = "create"
    THEN LET now == FetchDesiredState(rows, routes)
             ids == SelectSeq(KeysInOrder(now.vpcs, VpcOrder),
                              LAMBDA o : o # action.resource_id)
             others == [i \in 1..Len(ids) |-> now.vpcs[ids[i]].cidr]
         IN [s \in SwitchSet |->
                IF s \in up
                THEN [fab[s] EXCEPT
                        !.rules = IsolateFrom(@, action.target_state.cidr, others)]
                ELSE fab[s]]
    ELSE fab

\* A route executor that installs the route as a FORWARD rule on every switch.
ApplyRouteActionInstall(action, fab) ==
    [s \in SwitchSet |->
        [fab[s] EXCEPT !.rules =
            InsertRule(@, [src |-> "", dst |-> action.target_state.destination,
                           target |-> "ACCEPT"])]]

ApplyRouteAction(action, fab) == fab

ApplyVxlanActionToggle(action, fab, up) ==
    IF action.action_type = "create"
    THEN [s \in SwitchSet |->
            IF s \notin up THEN fab[s]
            ELSE IF action.target_state.vni \in fab[s].vxlans
            THEN [fab[s] EXCEPT !.vxlans = @ \ {action.target_state.vni}]
            ELSE [fab[s] EXCEPT !.vxlans = @ \cup {action.target_state.vni}]]
    ELSE fab

ApplyVxlanAction(action, fab, up) ==
    IF action.action_type = "create"
    THEN [s \in SwitchSet |->
            IF s \in up /\ action.target_state.vni \notin fab[s].vxlans
            THEN [fab[s] EXCEPT !.vxlans = @ \cup {action.target_state.vni}]
            ELSE fab[s]]
    ELSE fab

\* The loop over the switches ends at the first switch that fails.
ApplyVrfActionAbort(action, fab, up, supported) ==
    IF action.action_type = "create"
    THEN [s \in SwitchSet |->
            IF /\ \A i \in 1..Len(switches) :
                    (\E j \in i..Len(switches) : switches[j] = s)
                    => (switches[i] \in up /\ switches[i] \in supported)
               /\ action.resource_id \notin fab[s].vrfs
            THEN [fab[s] EXCEPT !.vrfs = @ \cup {action.resource_id}]
            ELSE fab[s]]
    ELSE fab

ApplyVrfAction(action, fab, up, supported) ==
    IF action.action_type = "create"
    THEN [s \in SwitchSet |->
            IF s \in up /\ s \in supported /\ action.resource_id \notin fab[s].vrfs
            THEN [fab[s] EXCEPT !.vrfs = @ \cup {action.resource_id}]
            ELSE fab[s]]
    ELSE fab

ExecuteEffect(action, fab, up, rows, routes, supported) ==
    CASE action.resource_type = "vpc" -> ApplyVpcAction(action, fab, up, rows, routes)
      [] action.resource_type = "route" -> ApplyRouteAction(action, fab)
      [] action.resource_type = "vxlan_tunnel" -> ApplyVxlanAction(action, fab, up)
      [] action.resource_type = "vrf" -> ApplyVrfAction(action, fab, up, supported)
      [] OTHER -> fab

(***************************************************************************)
(* reconcile()                                                             *)
(***************************************************************************)
NewResult == [success |-> TRUE, actions_taken |-> <<>>, errors |-> <<>>]

Event(phase, action, ok, again) ==
    [phase |-> phase, action |-> action, ok |-> ok, again |-> again]
NoAction == Action("none", "none", "none", EmptyMap, 0)

Count(b) == IF b THEN 1 ELSE 0

\* The resource a successful execution of `action` realizes.
Realizes(action) ==
    IF action.action_type = "create" THEN {action.resource_id} ELSE {}

\* Whether an execution of `action` repeats a CREATE that has succeeded before.
Repeats(action, done) ==
    action.action_type = "create" /\ action.resource_id \in done

\* Lines 175-177: the handler around the whole cycle.
IgnoreCycleException(res, text) == res

HandleCycleException(res, text) ==
    [res EXCEPT !.success = FALSE, !.errors = Append(@, text)]

\* Lines 145-159: fetch, discover, plan, sort.  An exception of the fetch
\* or of the planning reaches  the outer handler  (lines 175-177); one of the
\* discovery is caught inside _discover_actual_state.
ReconcileBegin ==
    /\ UNCHANGED component_vars
    /\ pc = "sleep"
    /\ \E fetch_raises \in BOOLEAN, query \in DiscoveryQueries, plan_raises \in BOOLEAN :
        /\ fetch_raises => (query = "ok" /\ ~plan_raises)
        /\ faults + Count(fetch_raises) + Count(DiscoveryFault(query))
                  + Count(plan_raises) <= MaxFaults
        /\ faults' = faults + Count(fetch_raises) + Count(DiscoveryFault(query))
                            + Count(plan_raises)
        /\ LET des == FetchDesiredState(vpc_rows, route_rows)
               act == DiscoverActualState(des, fabric, reachable, query)
           IN  IF fetch_raises
               THEN /\ desired' = EmptyState
                    /\ actual' = EmptyState
                    /\ actions' = <<>>
                    /\ result' = HandleCycleException(NewResult, "database error")
                    /\ log' = <<Event("fetch", NoAction, FALSE, FALSE)>>
                    /\ pc' = "return"
               ELSE /\ desired' = des
                    /\ actual' = act
                    /\ log' = (IF DiscoveryRaises(query)
                               THEN <<Event("discover", NoAction, FALSE, FALSE)>>
                               ELSE <<>>)
                              \o (IF plan_raises
                                  THEN <<Event("plan", NoAction, FALSE, FALSE)>>
                                  ELSE <<>>)
                    /\ IF plan_raises
                       THEN /\ actions' = <<>>
                            /\ result' = HandleCycleException(NewResult,
                                                              "planning error")
                            /\ pc' = "return"
                       ELSE /\ actions' = SortedByPriority(ComputeDiff(des, act))
                            /\ result' = NewResult
                            /\ pc' = "main"
    /\ idx' = 1
    /\ remaining' = <<>>
    /\ dropped' = {}
    /\ UNCHANGED <<vpc_rows, route_rows, fabric, reachable, vrf_supported,
                   hash_collisions, pending_actions, realized, api_calls>>

\* Lines 159-170: one iteration of the main pass.
ExecuteAction ==
    /\ UNCHANGED component_vars
    /\ pc = "main"
    /\ idx <= Len(actions)
    /\ \E raises \in BOOLEAN :
        LET action == actions[idx]
            tried == [action EXCEPT !.attempts = @ + 1]
            failed == [tried EXCEPT !.retries = @ + 1]
        IN  /\ raises => faults < MaxFaults
            /\ faults' = faults + Count(raises)
            /\ log' = Append(log, Event("main", action, ~raises,
                                     ~raises /\ Repeats(action, realized)))
            /\ IF ~raises
               THEN /\ fabric' = ExecuteEffect(action, fabric, reachable, vpc_rows,
                                               route_rows, vrf_supported)
                    /\ result' = [result EXCEPT !.actions_taken = Append(@, tried)]
                    /\ realized' = realized \cup Realizes(action)
                    /\ UNCHANGED <<pending_actions, dropped>>
               ELSE /\ UNCHANGED <<fabric, realized>>
                    /\ IF failed.retries < failed.max_retries
                       THEN /\ pending_actions' = Append(pending_actions, failed)
                            /\ result' = [result EXCEPT !.errors =
                                 Append(@, "Action failed, will retry: exec error")]
                            /\ UNCHANGED dropped
                       ELSE /\ result' = [result EXCEPT
                                 !.errors =
                                   Append(@, "Action failed permanently: exec error"),
                                 !.success = FALSE]
                            /\ dropped' = dropped \cup {failed}
                            /\ UNCHANGED pending_actions
    /\ idx' = idx + 1
    /\ UNCHANGED <<vpc_rows, route_rows, reachable, vrf_supported, hash_collisions,
                   pc, desired, actual, actions, remaining, api_calls>>

\* Line 173 and line 515: the main pass is over, _process_pending_actions starts.
EnterPending ==
    /\ UNCHANGED component_vars
    /\ pc = "main"
    /\ idx > Len(actions)
    /\ pc' = "pending"
    /\ idx' = 1
    /\ remaining' = <<>>
    /\ UNCHANGED <<vpc_rows, route_rows, fabric, reachable, vrf_supported,
                   hash_collisions, pending_actions, desired, actual,
                   actions, result, log, dropped, realized, faults, api_calls>>

\* Lines 517-525: one iteration over self.pending_actions.
ProcessPendingAction ==
    /\ UNCHANGED component_vars
    /\ pc = "pending"
    /\ idx <= Len(pending_actions)
    /\ LET action == pending_actions[idx]
           tried == [action EXCEPT !.attempts = @ + 1]
           failed == [tried EXCEPT !.retries = @ + 1]
       IN  IF action.retries <= action.max_retries
           THEN \E raises \in BOOLEAN :
                /\ log' = Append(log, Event("pending", action, ~raises,
                                        ~raises /\ Repeats(action, realized)))
                /\ UNCHANGED <<dropped, faults>>
                /\ IF ~raises
                   THEN /\ fabric' = ExecuteEffect(action, fabric, reachable,
                                                   vpc_rows, route_rows, vrf_supported)
                        /\ result' = [result EXCEPT
                                        !.actions_taken = Append(@, tried)]
                        /\ realized' = realized \cup Realizes(action)
                        /\ UNCHANGED remaining
                   ELSE /\ remaining' = Append(remaining, failed)
                        /\ UNCHANGED <<fabric, result, realized>>
           ELSE /\ dropped' = dropped \cup {action}
                /\ UNCHANGED <<fabric, result, remaining, log, faults, realized>>
    /\ idx' = idx + 1
    /\ UNCHANGED <<vpc_rows, route_rows, reachable, vrf_supported, hash_collisions,
                   pending_actions, pc, desired, actual, actions, api_calls>>

FinishPendingExtend ==
    /\ UNCHANGED component_vars
    /\ pc = "pending"
    /\ idx > Len(pending_actions)
    /\ pending_actions' = pending_actions \o remaining
    /\ remaining' = <<>>
    /\ pc' = "return"
    /\ UNCHANGED <<vpc_rows, route_rows, fabric, reachable, vrf_supported,
                   hash_collisions, desired, actual, actions, idx, result,
                   log, dropped, realized, faults, api_calls>>

\* Line 527: self.pending_actions = remaining; reconcile() is about to return.
FinishPending ==
    /\ UNCHANGED component_vars
    /\ pc = "pending"
    /\ idx > Len(pending_actions)
    /\ pending_actions' = remaining
    /\ remaining' = <<>>
    /\ pc' = "return"
    /\ UNCHANGED <<vpc_rows, route_rows, fabric, reachable, vrf_supported,
                   hash_collisions, desired, actual, actions, idx, result,
                   log, dropped, realized, faults, api_calls>>

\* run(), lines 110-127: the result is reported and the loop sleeps.  The
\* counters of self.metrics are only ever written and are not modelled.
ReconcileReturn ==
    /\ UNCHANGED component_vars
    /\ pc = "return"
    /\ pc' = "sleep"
    /\ desired' = EmptyState
    /\ actual' = EmptyState
    /\ actions' = <<>>
    /\ idx' = 1
    /\ result' = NewResult
    /\ log' = <<>>
    /\ dropped' = {}
    /\ UNCHANGED <<vpc_rows, route_rows, fabric, reachable, vrf_supported,
                   hash_collisions, pending_actions, remaining, realized, faults,
                   api_calls>>

(***************************************************************************)
(* The API threads (api/shared_api_logic.py) write the database while the  *)
(* engine runs.  The engine reads the database in _fetch_desired_state,    *)
(* called by reconcile() and by _apply_vpc_action; a write is modelled at  *)
(* the last moment before such a read, the only step that can observe it.  *)
(***************************************************************************)
ReadsDatabase(action) ==
    action.resource_type = "vpc" /\ action.action_type = "create"

DatabaseReadNext ==
    \/ pc = "sleep"
    \/ pc = "main" /\ idx <= Len(actions) /\ ReadsDatabase(actions[idx])
    \/ pc = "pending" /\ idx <= Len(pending_actions)
                      /\ ReadsDatabase(pending_actions[idx])
    \/ pc = "apply_vpc" /\ idx <= Len(switches)

CreateVpc(v) ==
    /\ UNCHANGED component_vars
    /\ api_calls < MaxApiCalls
    /\ DatabaseReadNext
    /\ vpc_rows[v] = NoRow
    /\ vpc_rows' = [vpc_rows EXCEPT ![v] = "provisioning"]
    /\ api_calls' = api_calls + 1
    /\ UNCHANGED <<route_rows, fabric, reachable, vrf_supported, hash_collisions,
                   pending_actions, pc, desired, actual, actions, idx,
                   remaining, result, log, dropped, realized, faults>>

ProvisionVpcTask(v) ==
    /\ UNCHANGED component_vars
    /\ api_calls < MaxApiCalls
    /\ DatabaseReadNext
    /\ vpc_rows[v] = "provisioning"
    /\ vpc_rows' = [vpc_rows EXCEPT ![v] = "available"]
    /\ api_calls' = api_calls + 1
    /\ UNCHANGED <<route_rows, fabric, reachable, vrf_supported, hash_collisions,
                   pending_actions, pc, desired, actual, actions, idx,
                   remaining, result, log, dropped, realized, faults>>

DeleteVpc(v) ==
    /\ UNCHANGED component_vars
    /\ api_calls < MaxApiCalls
    /\ DatabaseReadNext
    /\ vpc_rows[v] \notin {NoRow, "deleting"}
    /\ vpc_rows' = [vpc_rows EXCEPT ![v] = "deleting"]
    /\ api_calls' = api_calls + 1
    /\ UNCHANGED <<route_rows, fabric, reachable, vrf_supported, hash_collisions,
                   pending_actions, pc, desired, actual, actions, idx,
                   remaining, result, log, dropped, realized, faults>>

DeprovisionVpcTask(v) ==
    /\ UNCHANGED component_vars
    /\ api_calls < MaxApiCalls
    /\ DatabaseReadNext
    /\ vpc_rows[v] = "deleting"
    /\ vpc_rows' = [vpc_rows EXCEPT ![v] = NoRow]
    /\ api_calls' = api_calls + 1
    /\ UNCHANGED <<route_rows, fabric, reachable, vrf_supported, hash_collisions,
                   pending_actions, pc, desired, actual, actions, idx,
                   remaining, result, log, dropped, realized, faults>>

(***************************************************************************)
(* The engine is constructed against a database and a fabric that may      *)
(* already hold state of an earlier run.                                   *)
(***************************************************************************)
InitialRows ==
    {[v \in VpcIds |-> IF v = "vpc-a" THEN a ELSE b] :
        a \in {"provisioning", "deleting"}, b \in {NoRow, "provisioning"}}

NodeStates ==
    {[vrfs |-> d, vxlans |-> {}, rules |-> <<>>] : d \in {{}, {"VRF-vpc-b"}}}

EmptyNode == [vrfs |-> {}, vxlans |-> {}, rules |-> <<>>]

\* A rule of the FORWARD chain that the engine did not install:
\* "-A FORWARD -s 10.1.0.0/16 -j ACCEPT".
ForeignRule == [src |-> Cidr("vpc-a"), dst |-> "", target |-> "ACCEPT"]

\* The environments the engine starts in: the database rows, the fabric,
\* the switches whose container is found and those whose kernel has VRF
\* support.  Next to the uniform fabrics with every switch up: one switch
\* without VRF support, one switch that is down, and a representative switch
\* with a rule of the operator in its FORWARD chain.
Environments ==
    {[rows |-> rows, routes |-> routes, fabric |-> [s \in SwitchSet |-> node],
      up |-> SwitchSet, vrf |-> SwitchSet] :
        rows \in InitialRows, routes \in SUBSET RouteIds, node \in NodeStates}
    \cup
    {[rows |-> [v \in VpcIds |-> IF v = "vpc-a" THEN "provisioning" ELSE NoRow],
      routes |-> {}, fabric |-> [s \in SwitchSet |-> EmptyNode],
      up |-> SwitchSet, vrf |-> SwitchSet \ {"leaf-2"}],
     [rows |-> [v \in VpcIds |-> IF v = "vpc-a" THEN "provisioning" ELSE NoRow],
      routes |-> {}, fabric |-> [s \in SwitchSet |-> EmptyNode],
      up |-> SwitchSet \ {"leaf-3"}, vrf |-> SwitchSet],
     [rows |-> [v \in VpcIds |-> IF v = "vpc-a" THEN "provisioning" ELSE NoRow],
      routes |-> {},
      fabric |-> [s \in SwitchSet |->
                    IF s = "leaf-1"
                    THEN [EmptyNode EXCEPT !.rules = <<ForeignRule>>]
                    ELSE EmptyNode],
      up |-> SwitchSet, vrf |-> SwitchSet]}

(***************************************************************************)
(* The libraries before their first call.                                  *)
(***************************************************************************)
NoException == "none"

\* A library call with its outcome; `again`: the call before it was the same.
Called(call, exception, again) ==
    [call |-> call, raised |-> exception, again |-> again]
NoCall == Called([op |-> "none"], NoException, FALSE)

NewNetlink == [namespaces |-> EmptyMap, vxlan_devices |-> EmptyMap,
               veth_pairs |-> EmptyMap]

EmptyKernel == [netns |-> {}, links |-> {}, addrs |-> {}, routes |-> {},
                masters |-> {}]

NoTexts == [current |-> <<>>, desired |-> <<>>]

\* The sessions of the REST and the gRPC handlers; none has called
\* get_next_vni, the table vni_counter is empty.
Sessions == {"rest", "grpc"}

IdleSession == [pc |-> "idle", row |-> 0, current |-> 0, calls |-> 0]

NoVniCalls ==
    /\ vni_counter = <<>>
    /\ db_sessions = [of |-> [s \in Sessions |-> IdleSession], returned |-> <<>>]

\* ReconciliationEngine.__init__: self.running = False, no thread yet.
NotStarted ==
    [running |-> FALSE, at |-> "unstarted", cycles |-> 0,
     iterations |-> 0, stopped |-> FALSE, after_stop |-> 0]

IdleComponents ==
    /\ netlink = NewNetlink
    /\ kernel = EmptyKernel
    /\ config_texts = NoTexts
    /\ commands = EmptyBag
    /\ inventory = EmptyMap
    /\ last_call = NoCall
    /\ NoVniCalls
    /\ run_loop = NotStarted

Init ==
    /\ \E env \in Environments :
          /\ vpc_rows = env.rows
          /\ route_rows = env.routes
          /\ fabric = env.fabric
          /\ reachable = env.up
          /\ vrf_supported = env.vrf
    /\ IdleComponents
    /\ hash_collisions = {}
    /\ pending_actions = <<>>
    /\ pc = "sleep"
    /\ desired = EmptyState
    /\ actual = EmptyState
    /\ actions = <<>>
    /\ idx = 1
    /\ remaining = <<>>
    /\ result = NewResult
    /\ log = <<>>
    /\ dropped = {}
    /\ realized = {}
    /\ faults = 0
    /\ api_calls = 0

Next ==
    \/ ReconcileBegin
    \/ ExecuteAction
    \/ EnterPending
    \/ ProcessPendingAction
    \/ FinishPending
    \/ ReconcileReturn
    \/ \E v \in VpcIds : CreateVpc(v)
    \/ \E v \in VpcIds : ProvisionVpcTask(v)
    \/ \E v \in VpcIds : DeleteVpc(v)
    \/ \E v \in VpcIds : DeprovisionVpcTask(v)

Spec == Init /\ [][Next]_vars

(***************************************************************************)
(* _compute_diff as a function: the inputs are drawn at once and the       *)
(* function is applied to them.  The actual snapshot holds, for a VPC id,  *)
(* the record discovery builds or a record equal to the desired one.       *)
(***************************************************************************)
DiscoveredRecord(v) == [id |-> v, status |-> "available"]

CollisionCandidates ==
    {{Items(VpcData(v, st)), Items(DiscoveredRecord(v))} :
        v \in VpcIds, st \in Statuses}

ActualVpcInputs(des) ==
    {[k \in links \cup found \cup same |->
        IF k \in same THEN des.vpcs[k]
        ELSE IF k \in found THEN DiscoveredRecord(k)
        ELSE [id |-> k, status |-> "up"]] :
        links \in SUBSET VrfNames,
        found \in SUBSET VpcIds,
        same \in SUBSET (DOMAIN des.vpcs)}

InitDiff ==
    /\ vpc_rows \in [VpcIds -> {NoRow, "provisioning", "available"}]
    /\ route_rows \in SUBSET RouteIds
    /\ desired = FetchDesiredState(vpc_rows, route_rows)
    /\ \E vpcs \in ActualVpcInputs(desired), vnis \in SUBSET Vnis :
          actual = [vpcs |-> vpcs, routes |-> EmptyMap,
                    vxlan_tunnels |->
                      [t \in {TunnelId(n) : n \in vnis} |->
                        [vni |-> CHOOSE n \in vnis : TunnelId(n) = t,
                         status |-> "up"]]]
    /\ hash_collisions \in {c \in SUBSET CollisionCandidates : Cardinality(c) <= 1}
    /\ fabric = [s \in SwitchSet |-> [vrfs |-> {}, vxlans |-> {}, rules |-> <<>>]]
    /\ reachable = SwitchSet
    /\ vrf_supported = SwitchSet
    /\ IdleComponents
    /\ pending_actions = <<>>
    /\ pc = "input"
    /\ actions = <<>>
    /\ idx = 1
    /\ remaining = <<>>
    /\ result = NewResult
    /\ log = <<>>
    /\ dropped = {}
    /\ realized = {}
    /\ faults = 0
    /\ api_calls = 0

ApplyComputeDiff ==
    /\ UNCHANGED component_vars
    /\ pc = "input"
    /\ actions' = ComputeDiff(desired, actual)
    /\ pc' = "diffed"
    /\ UNCHANGED <<vpc_rows, route_rows, fabric, reachable, vrf_supported,
                   hash_collisions, pending_actions, desired, actual, idx,
                   remaining, result, log, dropped, realized, faults, api_calls>>

NextDiff == ApplyComputeDiff

SpecDiff == InitDiff /\ [][NextDiff]_vars

(***************************************************************************)
(* _apply_vpc_action, CREATE, switch by switch: each iteration of the loop *)
(* over self.switches calls _fetch_desired_state() again, and the API      *)
(* threads may write the database between two iterations.                  *)
(***************************************************************************)
ApplyVpcOnSwitch ==
    /\ UNCHANGED component_vars
    /\ pc = "apply_vpc"
    /\ idx <= Len(switches)
    /\ LET action == actions[1]
           s == switches[idx]
           now == FetchDesiredState(vpc_rows, route_rows)
           ids == SelectSeq(KeysInOrder(now.vpcs, VpcOrder),
                            LAMBDA o : o # action.resource_id)
           others == [i \in 1..Len(ids) |-> now.vpcs[ids[i]].cidr]
       IN fabric' = IF s \in reachable
                    THEN [fabric EXCEPT ![s].rules =
                            IsolateFrom(@, action.target_state.cidr, others)]
                    ELSE fabric
    /\ idx' = idx + 1
    /\ UNCHANGED <<vpc_rows, route_rows, reachable, vrf_supported, hash_collisions,
                   pending_actions, pc, desired, actual, actions, remaining,
                   result, log, dropped, realized, faults, api_calls>>

ApplyVpcReturn ==
    /\ UNCHANGED component_vars
    /\ pc = "apply_vpc"
    /\ idx > Len(switches)
    /\ pc' = "applied"
    /\ UNCHANGED <<vpc_rows, route_rows, fabric, reachable, vrf_supported,
                   hash_collisions, pending_actions, desired, actual, actions,
                   idx, remaining, result, log, dropped, realized, faults,
                   api_calls>>

InitApplyVpc ==
    /\ IdleComponents
    /\ vpc_rows \in [VpcIds -> {NoRow} \cup Statuses]
    /\ route_rows = {}
    /\ fabric = [s \in SwitchSet |-> EmptyNode]
    /\ reachable \in {SwitchSet, SwitchSet \ {"leaf-3"}}
    /\ vrf_supported = SwitchSet
    /\ hash_collisions = {}
    /\ pending_actions = <<>>
    /\ pc = "apply_vpc"
    /\ desired = FetchDesiredState(vpc_rows, route_rows)
    /\ actual = EmptyState
    /\ \E v \in DOMAIN desired.vpcs :
          actions = <<Action("create", "vpc", v, desired.vpcs[v], 10)>>
    /\ idx = 1
    /\ remaining = <<>>
    /\ result = NewResult
    /\ log = <<>>
    /\ dropped = {}
    /\ realized = {}
    /\ faults = 0
    /\ api_calls = 0

NextApplyVpc ==
    \/ ApplyVpcOnSwitch
    \/ ApplyVpcReturn
    \/ \E v \in VpcIds : CreateVpc(v)
    \/ \E v \in VpcIds : ProvisionVpcTask(v)
    \/ \E v \in VpcIds : DeleteVpc(v)
    \/ \E v \in VpcIds : DeprovisionVpcTask(v)

SpecApplyVpc == InitApplyVpc /\ [][NextApplyVpc]_vars

(***************************************************************************)
(* The engine beside a fabric whose missing containers come back: between  *)
(* two cycles _get_container starts to find the container of every switch. *)
(***************************************************************************)
NodeReturns ==
    /\ UNCHANGED component_vars
    /\ pc = "sleep"
    /\ reachable # SwitchSet
    /\ reachable' = SwitchSet
    /\ UNCHANGED <<vpc_rows, route_rows, fabric, vrf_supported, hash_collisions,
                   pending_actions, pc, desired, actual, actions, idx, remaining,
                   result, log, dropped, realized, faults, api_calls>>

NextRepair ==
    \/ ReconcileBegin
    \/ ExecuteAction
    \/ EnterPending
    \/ ProcessPendingAction
    \/ FinishPending
    \/ ReconcileReturn
    \/ NodeReturns
    \/ \E v \in VpcIds : CreateVpc(v)
    \/ \E v \in VpcIds : ProvisionVpcTask(v)
    \/ \E v \in VpcIds : DeleteVpc(v)
    \/ \E v \in VpcIds : DeprovisionVpcTask(v)

SpecRepair == Init /\ [][NextRepair]_vars

(***************************************************************************)
(* The engine at rest, for the specifications of the libraries.            *)
(***************************************************************************)
IdleEngine ==
    /\ vpc_rows = [v \in VpcIds |-> NoRow]
    /\ route_rows = {}
    /\ fabric = [s \in SwitchSet |-> EmptyNode]
    /\ reachable = SwitchSet
    /\ vrf_supported = SwitchSet
    /\ hash_collisions = {}
    /\ pending_actions = <<>>
    /\ pc = "library"
    /\ desired = EmptyState
    /\ actual = EmptyState
    /\ actions = <<>>
    /\ idx = 1
    /\ remaining = <<>>
    /\ result = NewResult
    /\ log = <<>>
    /\ dropped = {}
    /\ realized = {}
    /\ faults = 0
    /\ api_calls = 0

(***************************************************************************)
(* netlink/netlink_manager.py: NetlinkManager.  Every primitive runs ip     *)
(* commands with subprocess.run(check=True): a command that exits with a   *)
(* non-zero code raises CalledProcessError.  `host` is the network state   *)
(* of the machine: its namespaces, its links (namespace "" is the root     *)
(* namespace), addresses, routes and bridge memberships.                   *)
(***************************************************************************)
RootNs == ""
None == "None"

Link(ns, name, kind, vni, pair) ==
    [ns |-> ns, name |-> name, kind |-> kind, up |-> FALSE, vni |-> vni,
     pair |-> pair]

LinkIn(host, ns, name) == \E l \in host.links : l.ns = ns /\ l.name = name

\* The outcome of a command: the host afterwards and the exit code.
Ran(host, code) == [host |-> host, exit |-> code]

\* Removing links takes their veth peers, addresses and memberships along.
WithoutLinks(host, gone) ==
    LET pairs == {l.pair : l \in gone} \ {""}
        all == gone \cup {l \in host.links : l.pair \in pairs}
        at == {<<l.ns, l.name>> : l \in all}
    IN [host EXCEPT
          !.links = @ \ all,
          !.addrs = {a \in @ : <<a[1], a[2]>> \notin at},
          !.masters = {m \in @ : <<m[1], m[2]>> \notin at
                                 /\ <<m[1], m[3]>> \notin at}]

\* ip netns add {name}
IpNetnsAdd(host, name) ==
    IF name \in host.netns THEN Ran(host, 1)
    ELSE Ran([host EXCEPT !.netns = @ \cup {name}], 0)

\* ip netns del {name}
IpNetnsDel(host, name) ==
    IF name \notin host.netns THEN Ran(host, 1)
    ELSE LET left == WithoutLinks(host, {l \in host.links : l.ns = name})
         IN Ran([left EXCEPT !.netns = @ \ {name},
                             !.routes = {r \in @ : r[1] # name}], 0)

\* ip link add {name} type vxlan id {vni} local {local_ip} dstport 4789
IpLinkAddVxlan(host, name, vni) ==
    IF \/ LinkIn(host, RootNs, name)
       \/ \E l \in host.links : l.ns = RootNs /\ l.kind = "vxlan" /\ l.vni = vni
    THEN Ran(host, 2)
    ELSE Ran([host EXCEPT !.links = @ \cup {Link(RootNs, name, "vxlan", vni, "")}], 0)

\* ip link add {name} type veth peer name {peer_name}
IpLinkAddVeth(host, name, peer_name) ==
    IF LinkIn(host, RootNs, name) \/ LinkIn(host, RootNs, peer_name)
    THEN Ran(host, 2)
    ELSE Ran([host EXCEPT !.links = @ \cup {Link(RootNs, name, "veth", 0, name),
                                            Link(RootNs, peer_name, "veth", 0, name)}],
             0)

\* ip link add {name} type bridge
IpLinkAddBridge(host, name) ==
    IF LinkIn(host, RootNs, name) THEN Ran(host, 2)
    ELSE Ran([host EXCEPT !.links = @ \cup {Link(RootNs, name, "bridge", 0, "")}], 0)

\* ip link set {name} up
IpLinkSetUp(host, name) ==
    IF ~LinkIn(host, RootNs, name) THEN Ran(host, 1)
    ELSE Ran([host EXCEPT !.links =
                {IF l.ns = RootNs /\ l.name = name THEN [l EXCEPT !.up = TRUE] ELSE l :
                    l \in @}], 0)

\* ip link set {name} netns {namespace}: the link arrives down, without address.
IpLinkSetNetns(host, name, namespace) ==
    IF \/ ~LinkIn(host, RootNs, name)
       \/ namespace \notin host.netns
       \/ LinkIn(host, namespace, name)
    THEN Ran(host, 2)
    ELSE Ran([host EXCEPT
                !.links = {IF l.ns = RootNs /\ l.name = name
                           THEN [l EXCEPT !.ns = namespace, !.up = FALSE] ELSE l :
                              l \in @},
                !.addrs = {a \in @ : <<a[1], a[2]>> # <<RootNs, name>>},
                !.masters = {m \in @ : <<m[1], m[2]>> # <<RootNs, name>>}], 0)

\* ip link del {name}
IpLinkDel(host, name) ==
    IF ~LinkIn(host, RootNs, name) THEN Ran(host, 1)
    ELSE Ran(WithoutLinks(host, {l \in host.links : l.ns = RootNs /\ l.name = name}),
             0)

\* ip addr add {address} dev {interface}
IpAddrAdd(host, interface, address) ==
    IF ~LinkIn(host, RootNs, interface) \/ <<RootNs, interface, address>> \in host.addrs
    THEN Ran(host, 2)
    ELSE Ran([host EXCEPT !.addrs = @ \cup {<<RootNs, interface, address>>}], 0)

\* ip route add {destination} via {gateway}; the gateway is on an uplink.
IpRouteAdd(host, destination, gateway) ==
    IF \E r \in host.routes : r[1] = RootNs /\ r[2] = destination
    THEN Ran(host, 2)
    ELSE Ran([host EXCEPT !.routes = @ \cup {<<RootNs, destination, gateway>>}], 0)

\* ip route del {destination}
IpRouteDel(host, destination) ==
    IF ~\E r \in host.routes : r[1] = RootNs /\ r[2] = destination
    THEN Ran(host, 2)
    ELSE Ran([host EXCEPT !.routes =
                {r \in @ : ~(r[1] = RootNs /\ r[2] = destination)}], 0)

\* ip link set {interface} master {bridge}
IpLinkSetMaster(host, interface, bridge) ==
    IF \/ ~LinkIn(host, RootNs, interface)
       \/ ~\E l \in host.links :
              l.ns = RootNs /\ l.name = bridge /\ l.kind = "bridge"
    THEN Ran(host, 1)
    ELSE Ran([host EXCEPT
                !.masters = {m \in @ : <<m[1], m[2]>> # <<RootNs, interface>>}
                            \cup {<<RootNs, interface, bridge>>}], 0)

\* subprocess.run(..., check=True): the exception of an exit code.
CheckedExit(code) == IF code = 0 THEN NoException ELSE "CalledProcessError"

ExceptNothing(exception) == exception

\* try: ... except subprocess.CalledProcessError: the exception that leaves
\* the method.
ExceptCalledProcessError(exception) ==
    IF exception = "CalledProcessError" THEN NoException ELSE exception

\* What a primitive returns to its caller: the manager, the host, the
\* exception that left the method.
Returned(mgr, host, exception) ==
    [netlink |-> mgr, kernel |-> host, raised |-> exception]

\* Two commands in one try block: the second runs only if the first succeeds.
Then(first, second(_)) ==
    IF first.exit = 0 THEN second(first.host) ELSE first

Put(map, key, value) ==
    [k \in DOMAIN map \cup {key} |-> IF k = key THEN value ELSE map[k]]
Del(map, key) == [k \in DOMAIN map \ {key} |-> map[k]]

create_namespace(mgr, host, name) ==
    LET ran == IpNetnsAdd(host, name)
        ns == [name |-> name, interfaces |-> <<>>, routes |-> <<>>]
    IN Returned([mgr EXCEPT !.namespaces = Put(@, name, ns)], ran.host,
                ExceptCalledProcessError(CheckedExit(ran.exit)))

delete_namespace(mgr, host, name) ==
    LET ran == IpNetnsDel(host, name)
    IN Returned([mgr EXCEPT !.namespaces = Del(@, name)], ran.host,
                ExceptCalledProcessError(CheckedExit(ran.exit)))

create_vxlan(mgr, host, name, vni, local_ip, remote_ip, group) ==
    LET ran == Then(IpLinkAddVxlan(host, name, vni),
                    LAMBDA h : IpLinkSetUp(h, name))
        device == [name |-> name, vni |-> vni, local_ip |-> local_ip,
                   remote_ip |-> remote_ip, group |-> group, port |-> 4789]
    IN Returned([mgr EXCEPT !.vxlan_devices = Put(@, name, device)], ran.host,
                ExceptCalledProcessError(CheckedExit(ran.exit)))

delete_vxlan(mgr, host, name) ==
    LET ran == IpLinkDel(host, name)
    IN Returned([mgr EXCEPT !.vxlan_devices = Del(@, name)], ran.host,
                ExceptCalledProcessError(CheckedExit(ran.exit)))

create_veth_pair(mgr, host, name, peer_name, namespace) ==
    LET added == IpLinkAddVeth(host, name, peer_name)
        moved == IF namespace = None THEN added
                 ELSE Then(added, LAMBDA h : IpLinkSetNetns(h, peer_name, namespace))
        ran == Then(moved, LAMBDA h : IpLinkSetUp(h, name))
        pair == [name |-> name, peer_name |-> peer_name, namespace |-> namespace]
    IN Returned([mgr EXCEPT !.veth_pairs = Put(@, name, pair)], ran.host,
                ExceptCalledProcessError(CheckedExit(ran.exit)))

add_ip_address(mgr, host, interface, address) ==
    LET ran == IpAddrAdd(host, interface, address)
    IN Returned(mgr, ran.host, ExceptCalledProcessError(CheckedExit(ran.exit)))

add_route(mgr, host, destination, gateway) ==
    LET ran == IpRouteAdd(host, destination, gateway)
    IN Returned(mgr, ran.host, ExceptCalledProcessError(CheckedExit(ran.exit)))

del_route(mgr, host, destination) ==
    LET ran == IpRouteDel(host, destination)
    IN Returned(mgr, ran.host, ExceptCalledProcessError(CheckedExit(ran.exit)))

create_bridge(mgr, host, name) ==
    LET ran == Then(IpLinkAddBridge(host, name), LAMBDA h : IpLinkSetUp(h, name))
    IN Returned(mgr, ran.host, ExceptCalledProcessError(CheckedExit(ran.exit)))

add_bridge_port(mgr, host, bridge, interface) ==
    LET ran == IpLinkSetMaster(host, interface, bridge)
    IN Returned(mgr, ran.host, ExceptCalledProcessError(CheckedExit(ran.exit)))

\* The calls that are made, with their arguments.
NetlinkCalls ==
    {[op |-> "create_namespace", name |-> "ns-a"],
     [op |-> "delete_namespace", name |-> "ns-a"],
     [op |-> "create_vxlan", name |-> "vxlan100", vni |-> 100,
      local_ip |-> "10.0.0.1", remote_ip |-> None, group |-> None],
     [op |-> "create_vxlan", name |-> "vxlan200", vni |-> 100,
      local_ip |-> "10.0.0.1", remote_ip |-> None, group |-> None],
     [op |-> "delete_vxlan", name |-> "vxlan100"],
     [op |-> "create_veth_pair", name |-> "veth0", peer_name |-> "veth0-peer",
      namespace |-> None],
     [op |-> "create_veth_pair", name |-> "veth0", peer_name |-> "veth0-peer",
      namespace |-> "ns-a"],
     [op |-> "add_ip_address", interface |-> "veth0", address |-> "10.0.0.1/24"],
     [op |-> "add_route", destination |-> "10.2.0.0/16", gateway |-> "10.0.0.254"],
     [op |-> "del_route", destination |-> "10.2.0.0/16"],
     [op |-> "create_bridge", name |-> "br0"],
     [op |-> "add_bridge_port", bridge |-> "br0", interface |-> "veth0"]}

ApplyNetlinkCall(call, mgr, host) ==
    CASE call.op = "create_namespace" -> create_namespace(mgr, host, call.name)
      [] call.op = "delete_namespace" -> delete_namespace(mgr, host, call.name)
      [] call.op = "create_vxlan" ->
            create_vxlan(mgr, host, call.name, call.vni, call.local_ip,
                         call.remote_ip, call.group)
      [] call.op = "delete_vxlan" -> delete_vxlan(mgr, host, call.name)
      [] call.op = "create_veth_pair" ->
            create_veth_pair(mgr, host, call.name, call.peer_name, call.namespace)
      [] call.op = "add_ip_address" ->
            add_ip_address(mgr, host, call.interface, call.address)
      [] call.op = "add_route" ->
            add_route(mgr, host, call.destination, call.gateway)
      [] call.op = "del_route" -> del_route(mgr, host, call.destination)
      [] call.op = "create_bridge" -> create_bridge(mgr, host, call.name)
      [] call.op = "add_bridge_port" ->
            add_bridge_port(mgr, host, call.bridge, call.interface)

\* One call of a primitive by the owner of the manager.
NetlinkCall(op) ==
    /\ pc = "library"
    /\ \E call \in NetlinkCalls :
          /\ call.op = op
          /\ LET back == ApplyNetlinkCall(call, netlink, kernel)
             IN /\ netlink' = back.netlink
                /\ kernel' = back.kernel
                /\ last_call' = Called(call, back.raised, last_call.call = call)
    /\ UNCHANGED <<engine_vars, config_texts, commands, inventory, vni_vars,
                   run_vars>>

CreateNamespace == NetlinkCall("create_namespace")
DeleteNamespace == NetlinkCall("delete_namespace")
CreateVxlan == NetlinkCall("create_vxlan")
DeleteVxlan == NetlinkCall("delete_vxlan")
CreateVethPair == NetlinkCall("create_veth_pair")
AddIpAddress == NetlinkCall("add_ip_address")
AddRoute == NetlinkCall("add_route")
DelRoute == NetlinkCall("del_route")
CreateBridge == NetlinkCall("create_bridge")
AddBridgePort == NetlinkCall("add_bridge_port")

\* The host may hold a device of an earlier run that was set down.
InitialKernels ==
    {EmptyKernel,
     [EmptyKernel EXCEPT !.links = {Link(RootNs, "vxlan100", "vxlan", 100, "")}]}

InitNetlink ==
    /\ IdleEngine
    /\ netlink = NewNetlink
    /\ kernel \in InitialKernels
    /\ config_texts = NoTexts
    /\ commands = EmptyBag
    /\ inventory = EmptyMap
    /\ last_call = NoCall
    /\ NoVniCalls
    /\ run_loop = NotStarted

NextNetlink ==
    \/ CreateNamespace
    \/ DeleteNamespace
    \/ CreateVxlan
    \/ DeleteVxlan
    \/ CreateVethPair
    \/ AddIpAddress
    \/ AddRoute
    \/ DelRoute
    \/ CreateBridge
    \/ AddBridgePort

SpecNetlink == InitNetlink /\ [][NextNetlink]_vars

(***************************************************************************)
(* device/config_generator.py: ConfigGenerator.  A configuration text is   *)
(* the sequence of its lines (what split("\n") returns); a line is its     *)
(* leading blanks and its words.  Numbers are written as their text.       *)
(***************************************************************************)
ConfigLine(pad, words) == [pad |-> pad, words |-> words]
Blank == ConfigLine(0, <<>>)

IsBlankLine(line) == line.words = <<>>

\* {% for item in items %} ... {% endfor %}: the line of each tag is left
\* empty in the output.
For(items, body(_)) ==
    LET rendered[i \in 0..Len(items)] ==
            IF i = 0 THEN <<>>
            ELSE rendered[i - 1] \o <<Blank>> \o body(items[i])
    IN rendered[Len(items)] \o <<Blank>>

\* {% if condition %} ... {% endif %}
If(condition, lines) == (IF condition THEN <<Blank>> \o lines ELSE <<>>) \o <<Blank>>

\* FRR_BASE_TEMPLATE rendered by generate_frr_config.
RenderFrr(hostname, router_id, asn, neighbors, vrfs, static_routes) ==
    << Blank,
       ConfigLine(0, <<"!">>),
       ConfigLine(0, <<"frr", "version", "8.5">>),
       ConfigLine(0, <<"frr", "defaults", "datacenter">>),
       ConfigLine(0, <<"hostname", hostname>>),
       ConfigLine(0, <<"log", "syslog", "informational">>),
       ConfigLine(0, <<"service", "integrated-vtysh-config">>),
       ConfigLine(0, <<"!">>) >>
    \o For(vrfs, LAMBDA vrf :
          << ConfigLine(0, <<"vrf", vrf.name>>),
             ConfigLine(1, <<"vni", vrf.vni>>),
             ConfigLine(0, <<"exit-vrf">>),
             ConfigLine(0, <<"!">>) >>)
    \o << ConfigLine(0, <<"router", "bgp", asn>>),
          ConfigLine(1, <<"bgp", "router-id", router_id>>),
          ConfigLine(1, <<"bgp", "bestpath", "as-path", "multipath-relax">>),
          ConfigLine(1, <<"no", "bgp", "ebgp-requires-policy">>),
          ConfigLine(1, <<"no", "bgp", "default", "ipv4-unicast">>),
          ConfigLine(1, <<"!">>) >>
    \o For(neighbors, LAMBDA neighbor :
          << ConfigLine(1, <<"neighbor", neighbor.ip, "remote-as",
                             neighbor.remote_asn>>) >>
          \o If(neighbor.peer_group # None,
                << ConfigLine(1, <<"neighbor", neighbor.ip, "peer-group",
                                   neighbor.peer_group>>) >>))
    \o << ConfigLine(1, <<"!">>),
          ConfigLine(1, <<"address-family", "ipv4", "unicast">>),
          ConfigLine(2, <<"redistribute", "connected">>) >>
    \o For(neighbors, LAMBDA neighbor :
          << ConfigLine(2, <<"neighbor", neighbor.ip, "activate">>) >>)
    \o << ConfigLine(1, <<"exit-address-family">>),
          ConfigLine(1, <<"!">>),
          ConfigLine(1, <<"address-family", "l2vpn", "evpn">>) >>
    \o For(neighbors, LAMBDA neighbor :
          << ConfigLine(2, <<"neighbor", neighbor.ip, "activate">>) >>)
    \o << ConfigLine(2, <<"advertise-all-vni">>),
          ConfigLine(1, <<"exit-address-family">>),
          ConfigLine(0, <<"exit">>),
          ConfigLine(0, <<"!">>) >>
    \o For(vrfs, LAMBDA vrf :
          << ConfigLine(0, <<"router", "bgp", asn, "vrf", vrf.name>>),
             ConfigLine(1, <<"bgp", "router-id", router_id>>),
             ConfigLine(1, <<"!">>),
             ConfigLine(1, <<"address-family", "ipv4", "unicast">>),
             ConfigLine(2, <<"redistribute", "connected">>),
             ConfigLine(2, <<"redistribute", "static">>),
             ConfigLine(1, <<"exit-address-family">>),
             ConfigLine(1, <<"!">>),
             ConfigLine(1, <<"address-family", "l2vpn", "evpn">>),
             ConfigLine(2, <<"advertise", "ipv4", "unicast">>),
             ConfigLine(2, <<"rd", vrf.rd>>) >>
          \o For(vrf.rt_import, LAMBDA rt :
                << ConfigLine(2, <<"route-target", "import", rt>>) >>)
          \o For(vrf.rt_export, LAMBDA rt :
                << ConfigLine(2, <<"route-target", "export", rt>>) >>)
          \o << ConfigLine(1, <<"exit-address-family">>),
                ConfigLine(0, <<"exit">>),
                ConfigLine(0, <<"!">>) >>)
    \o For(static_routes, LAMBDA static_route :
          << ConfigLine(0, <<"ip", "route", static_route.prefix,
                             static_route.next_hop>>
                           \o (IF static_route.vrf # None
                               THEN <<"vrf", static_route.vrf>> ELSE <<>>)),
             Blank >>)

generate_frr_config_other(hostname, router_id, asn, neighbors, vrfs, static_routes) ==
    [hostname |-> hostname, router_id |-> router_id, asn |-> asn,
     config_text |-> RenderFrr("switch", router_id, asn, neighbors, vrfs,
                               static_routes)]

generate_frr_config(hostname, router_id, asn, neighbors, vrfs, static_routes) ==
    [hostname |-> hostname, router_id |-> router_id, asn |-> asn,
     config_text |-> RenderFrr(hostname, router_id, asn, neighbors, vrfs,
                               static_routes)]

\* str.strip() of a text: the blank lines at both ends go, and the first
\* line loses its leading blanks (no line of the model ends in a blank).
RECURSIVE DropLeadingBlank(_)
DropLeadingBlank(text) ==
    IF text = <<>> THEN <<>>
    ELSE IF IsBlankLine(Head(text)) THEN DropLeadingBlank(Tail(text))
    ELSE text

RECURSIVE DropTrailingBlank(_)
DropTrailingBlank(text) ==
    IF text = <<>> THEN <<>>
    ELSE IF IsBlankLine(text[Len(text)])
    THEN DropTrailingBlank(SubSeq(text, 1, Len(text) - 1))
    ELSE text

StripText(text) ==
    LET inner == DropTrailingBlank(DropLeadingBlank(text))
    IN IF inner = <<>> THEN <<Blank>> ELSE [inner EXCEPT ![1].pad = 0]

\* set(text.strip().split("\n"))
LineSet(text) == LET lines == StripText(text) IN {lines[i] : i \in 1..Len(lines)}

\* line.strip(), then `if line and not line.startswith("!")`.
IsCommand(line) == line.words # <<>> /\ line.words[1] # "!"

\* The commands appended for the lines of `lines`, as a bag.
CommandsOf(lines, prefix) ==
    LET cmds == {prefix \o l.words : l \in {k \in lines : IsCommand(k)}}
    IN [c \in cmds |->
          Cardinality({l \in lines : IsCommand(l) /\ prefix \o l.words = c})]

\* The list returned is modelled by the bag of its elements: the order in
\* which the two sets are iterated is not determined.
diff_configs_all(current_text, desired_text) ==
    CommandsOf(LineSet(current_text), <<"no">>)
    (+) CommandsOf(LineSet(desired_text), <<>>)

diff_configs(current_text, desired_text) ==
    LET current_lines == LineSet(current_text)
        desired_lines == LineSet(desired_text)
        to_remove == current_lines \ desired_lines
        to_add == desired_lines \ current_lines
    IN CommandsOf(to_remove, <<"no">>) (+) CommandsOf(to_add, <<>>)

\* The texts that are compared: every text of up to MaxLines lines made of a
\* few lines, and rendered configurations.
MaxLines == 2

SmallLines ==
    {ConfigLine(0, <<>>), ConfigLine(1, <<>>), ConfigLine(0, <<"!">>)}
    \cup {ConfigLine(pad, words) :
            pad \in {0, 1},
            words \in {<<"hostname", "leaf1">>, <<"log", "syslog">>}}

SmallTexts == UNION {[1..n -> SmallLines] : n \in 1..MaxLines}

SampleNeighbors ==
    {<<>>,
     <<[ip |-> "10.0.0.2", remote_asn |-> "65000", peer_group |-> None]>>,
     <<[ip |-> "10.0.0.2", remote_asn |-> "65000", peer_group |-> "SPINE"]>>}

SampleVrfs ==
    {<<>>,
     <<[name |-> "VRF-vpc-a", vni |-> "1003", rd |-> "10.0.0.11:1003",
        rt_import |-> <<"65001:1003">>, rt_export |-> <<"65001:1003">>]>>}

SampleStaticRoutes ==
    {<<>>, <<[prefix |-> "0.0.0.0/0", next_hop |-> "10.0.0.254", vrf |-> None]>>}

RenderedTexts ==
    {generate_frr_config("leaf1", "10.0.0.11", "65001", neighbors, vrfs,
                         static_routes).config_text :
        neighbors \in SampleNeighbors, vrfs \in SampleVrfs,
        static_routes \in SampleStaticRoutes}

ConfigTexts == SmallTexts \cup RenderedTexts

InitConfig ==
    /\ IdleEngine
    /\ netlink = NewNetlink
    /\ kernel = EmptyKernel
    /\ config_texts \in [current : ConfigTexts, desired : ConfigTexts]
    /\ commands = EmptyBag
    /\ inventory = EmptyMap
    /\ last_call = NoCall
    /\ NoVniCalls
    /\ run_loop = NotStarted

DiffConfigs ==
    /\ pc = "library"
    /\ last_call = NoCall
    /\ commands' = diff_configs(config_texts.current, config_texts.desired)
    /\ last_call' = Called([op |-> "diff_configs"], NoException, FALSE)
    /\ UNCHANGED <<engine_vars, netlink_vars, config_texts, inventory, vni_vars,
                   run_vars>>

NextConfig == DiffConfigs

SpecConfig == InitConfig /\ [][NextConfig]_vars

(***************************************************************************)
(* device/config_generator.py: DeviceOnboarding.  The inventory is a dict  *)
(* from MAC address to the device's dict.  A MAC address is the sequence   *)
(* of its octets (the text between the colons).                            *)
(***************************************************************************)
NotInInventory == "ValueError: Device not in inventory"
NotAssigned == "ValueError: Device not yet assigned a role"
NoTopologyData == "ValueError: No topology data"

\* dict.get(key, default)
Get(map, key, default) == IF key \in DOMAIN map THEN map[key] ELSE default

\* mac_address.replace(':', '')
RECURSIVE WithoutColons(_)
WithoutColons(mac_address) ==
    IF mac_address = <<>> THEN ""
    ELSE Head(mac_address) \o WithoutColons(Tail(mac_address))

\* What a call leaves: the inventory, the exception raised, the value returned.
Onboarded(inv, exception) ==
    [inventory |-> inv, raised |-> exception, returned |-> None]

Returning(inv, value) ==
    [inventory |-> inv, raised |-> NoException, returned |-> value]

discover_device(inv, mac_address, ip_address) ==
    LET device == [mac_address |-> mac_address,
                   ip_address |-> ip_address,
                   status |-> "discovered",
                   model |-> "generic-switch",
                   serial |-> "SN-" \o WithoutColons(mac_address)]
    IN Returning(Put(inv, mac_address, device), device)

assign_role_unchecked(inv, mac_address, role, rack_id, position) ==
    Onboarded(Put(inv, mac_address,
                  [role |-> role, rack_id |-> rack_id, position |-> position,
                   status |-> "assigned",
                   hostname |-> role \o ToString(position)]),
              NoException)

assign_role(inv, mac_address, role, rack_id, position) ==
    IF mac_address \notin DOMAIN inv THEN Onboarded(inv, NotInInventory)
    ELSE LET device0 == inv[mac_address]
             device1 == Put(device0, "role", role)
             device2 == Put(device1, "rack_id", rack_id)
             device3 == Put(device2, "position", position)
             device4 == Put(device3, "status", "assigned")
             device5 == Put(device4, "hostname", role \o ToString(position))
         IN Returning(Put(inv, mac_address, device5), device5)

provision_device_again(inv, mac_address, topology) ==
    IF mac_address \notin DOMAIN inv THEN Onboarded(inv, NotInInventory)
    ELSE LET device == inv[mac_address]
         IN IF device["status"] = "discovered" THEN Onboarded(inv, NotAssigned)
            ELSE LET hostname == device["hostname"]
                     switch_data == Get(Get(topology, "switches", EmptyMap),
                                        hostname, EmptyMap)
                 IN IF switch_data = EmptyMap
                    THEN Onboarded(inv, NoTopologyData)
                    ELSE LET config == generate_frr_config(
                                           hostname,
                                           switch_data["router_id"],
                                           switch_data["asn"],
                                           Get(switch_data, "neighbors", <<>>),
                                           Get(switch_data, "vrfs", <<>>),
                                           <<>>)
                             device1 == Put(device, "status", "provisioned")
                             device2 == Put(device1, "config", config.config_text)
                         IN Returning(Put(inv, mac_address, device2), config)

provision_device(inv, mac_address, topology) ==
    IF mac_address \notin DOMAIN inv THEN Onboarded(inv, NotInInventory)
    ELSE LET device == inv[mac_address]
         IN IF device["status"] # "assigned" THEN Onboarded(inv, NotAssigned)
            ELSE LET hostname == device["hostname"]
                     switch_data == Get(Get(topology, "switches", EmptyMap),
                                        hostname, EmptyMap)
                 IN IF switch_data = EmptyMap
                    THEN Onboarded(inv, NoTopologyData)
                    ELSE LET config == generate_frr_config(
                                           hostname,
                                           switch_data["router_id"],
                                           switch_data["asn"],
                                           Get(switch_data, "neighbors", <<>>),
                                           Get(switch_data, "vrfs", <<>>),
                                           <<>>)
                             device1 == Put(device, "status", "provisioned")
                             device2 == Put(device1, "config", config.config_text)
                         IN Returning(Put(inv, mac_address, device2), config)

\* The arguments the operations are called with.
MacAddresses ==
    {<<"02", "00", "00", "00", "00", "01">>, <<"02", "00", "00", "00", "00", "02">>}
IpAddresses == {"10.0.0.11"}
Roles == {"leaf", "spine"}
RackIds == {"rack-1"}
Positions == {1, 2}

Topologies ==
    {EmptyMap,
     [switches |-> ("leaf1" :> EmptyMap)],
     [switches |->
        ("leaf1" :> [router_id |-> "10.0.0.11", asn |-> "65001",
                     neighbors |-> <<[ip |-> "10.0.0.2", remote_asn |-> "65000",
                                      peer_group |-> "SPINE"]>>,
                     vrfs |-> <<[name |-> "VRF-vpc-a", vni |-> "1003",
                                 rd |-> "10.0.0.11:1003",
                                 rt_import |-> <<"65001:1003">>,
                                 rt_export |-> <<"65001:1003">>]>>])],
     [switches |-> ("spine1" :> [router_id |-> "10.0.0.1", asn |-> "65000"])]}

OnboardingCall(call, back) ==
    /\ pc = "library"
    /\ inventory' = back.inventory
    /\ last_call' = [call |-> call, raised |-> back.raised,
                     again |-> last_call.call = call,
                     returned |-> back.returned]
    /\ UNCHANGED <<engine_vars, netlink_vars, config_texts, commands, vni_vars,
                   run_vars>>

DiscoverDevice ==
    \E mac_address \in MacAddresses, ip_address \in IpAddresses :
        OnboardingCall([op |-> "discover_device", mac_address |-> mac_address,
                        ip_address |-> ip_address],
                       discover_device(inventory, mac_address, ip_address))

AssignRole ==
    \E mac_address \in MacAddresses, role \in Roles, rack_id \in RackIds,
       position \in Positions :
        OnboardingCall([op |-> "assign_role", mac_address |-> mac_address,
                        role |-> role, rack_id |-> rack_id,
                        position |-> position],
                       assign_role(inventory, mac_address, role, rack_id, position))

ProvisionDevice ==
    \E mac_address \in MacAddresses, topology \in Topologies :
        OnboardingCall([op |-> "provision_device", mac_address |-> mac_address,
                        topology |-> topology],
                       provision_device(inventory, mac_address, topology))

InitOnboard == IdleEngine /\ IdleComponents

NextOnboard == DiscoverDevice \/ AssignRole \/ ProvisionDevice

SpecOnboard == InitOnboard /\ [][NextOnboard]_vars

(***************************************************************************)
(* api/shared_api_logic.py: get_next_vni(db), called by handlers that each *)
(* hold a session of their own on the same database.  A call is three      *)
(* database round trips: the query, the commit, the refresh.               *)
(***************************************************************************)
MaxVniCalls == 2

\* counter = db.query(VniCounter).first()
VniQuery(s) ==
    /\ pc = "library"
    /\ db_sessions.of[s].pc = "idle"
    /\ db_sessions.of[s].calls < MaxVniCalls
    /\ db_sessions' =
          [db_sessions EXCEPT !.of[s] =
              IF vni_counter = <<>>
              THEN [@ EXCEPT !.pc = "add"]
              ELSE [@ EXCEPT !.pc = "increment", !.row = 1,
                             !.current = vni_counter[1]]]
    /\ UNCHANGED vni_counter

\* counter = VniCounter(current=1003); db.add(counter); db.commit()
VniAdd(s) ==
    /\ pc = "library"
    /\ db_sessions.of[s].pc = "add"
    /\ vni_counter' = Append(vni_counter, FirstVni)
    /\ db_sessions' = [db_sessions EXCEPT !.of[s] =
                          [@ EXCEPT !.pc = "refresh", !.row = Len(vni_counter) + 1]]

\* counter.current += 1; db.commit(): the value written is the one loaded
\* by the query, plus one.
VniIncrement(s) ==
    /\ pc = "library"
    /\ db_sessions.of[s].pc = "increment"
    /\ vni_counter' = [vni_counter EXCEPT ![db_sessions.of[s].row] =
                                         db_sessions.of[s].current + 1]
    /\ db_sessions' = [db_sessions EXCEPT !.of[s] = [@ EXCEPT !.pc = "refresh"]]

\* db.refresh(counter); return counter.current
VniRefresh(s) ==
    /\ pc = "library"
    /\ db_sessions.of[s].pc = "refresh"
    /\ db_sessions' =
          [db_sessions EXCEPT
              !.of[s] = [@ EXCEPT !.pc = "idle", !.calls = @ + 1],
              !.returned = Append(@, vni_counter[db_sessions.of[s].row])]
    /\ UNCHANGED vni_counter

GetNextVni ==
    /\ \E s \in Sessions :
          VniQuery(s) \/ VniAdd(s) \/ VniIncrement(s) \/ VniRefresh(s)
    /\ UNCHANGED <<engine_vars, netlink_vars, config_texts, commands, inventory,
                   last_call, run_vars>>

InitVni == IdleEngine /\ IdleComponents

NextVni == GetNextVni

SpecVni == InitVni /\ [][NextVni]_vars

(***************************************************************************)
(* reconciler.py: run() in the thread main() starts, and stop() called by  *)
(* another thread.  Each statement that reads or writes self.running is a  *)
(* step of its own.                                                        *)
(***************************************************************************)
MaxIterations == 4

RunStep(next) ==
    /\ pc = "library"
    /\ run_loop' = next
    /\ UNCHANGED <<engine_vars, netlink_vars, device_vars>>

\* reconciler_thread.start()
ThreadStart ==
    /\ run_loop.at = "unstarted"
    /\ RunStep([run_loop EXCEPT !.at = "assign"])

\* self.running = True
RunAssign ==
    /\ run_loop.at = "assign"
    /\ RunStep([run_loop EXCEPT !.running = TRUE, !.at = "test"])

\* while self.running:
RunTest ==
    /\ run_loop.at = "test"
    /\ run_loop.running => run_loop.iterations < MaxIterations
    /\ RunStep(IF run_loop.running
               THEN [run_loop EXCEPT !.at = "reconcile",
                                     !.iterations = @ + 1,
                                     !.after_stop = @ + Count(run_loop.stopped)]
               ELSE [run_loop EXCEPT !.at = "exited"])

\* try: result = self.reconcile(); self.metrics["cycles"] += 1; ...
\* except Exception: print
RunReconcile ==
    /\ run_loop.at = "reconcile"
    /\ \E raises \in BOOLEAN :
          RunStep([run_loop EXCEPT !.at = "sleep", !.cycles = @ + Count(~raises)])

\* time.sleep(self.interval)
RunSleep ==
    /\ run_loop.at = "sleep"
    /\ RunStep([run_loop EXCEPT !.at = "test"])

\* stop(): self.running = False, from a thread that holds the engine after
\* the thread of run() has been started.
Stop ==
    /\ run_loop.at # "unstarted"
    /\ ~run_loop.stopped
    /\ RunStep([run_loop EXCEPT !.running = FALSE, !.stopped = TRUE])

InitRun == IdleEngine /\ IdleComponents

NextRun ==
    \/ ThreadStart
    \/ RunAssign
    \/ RunTest
    \/ RunReconcile
    \/ RunSleep
    \/ Stop

SpecRun == InitRun /\ [][NextRun]_vars

(***************************************************************************)
(* Properties.                                                             *)
(***************************************************************************)
Range(seq) == {seq[i] : i \in 1..Len(seq)}

\* The executions the current cycle attempted, in order.
MainEvents == SelectSeq(log, LAMBDA e : e.phase = "main")
Attempts == SelectSeq(log, LAMBDA e : e.phase \in {"main", "pending"})

IsCreate(a, rtype) == a.action_type = "create" /\ a.resource_type = rtype

\* The VPC an action is about.
VpcOf(a) ==
    CASE a.resource_type = "vxlan_tunnel" -> a.target_state.vpc_id
      [] a.resource_type = "vrf" -> a.target_state.id
      [] OTHER -> a.resource_id

\* The actions that wait for a retry at this point of the cycle.
Waiting ==
    IF pc = "pending"
    THEN Range(remaining) \cup {pending_actions[i] : i \in idx..Len(pending_actions)}
    ELSE Range(pending_actions)

EngineStep ==
    \/ ExecuteAction
    \/ EnterPending
    \/ ProcessPendingAction
    \/ FinishPending
    \/ ReconcileReturn

\* C1: an action whose every execution raised has been executed exactly
\* max_retries times, over all passes and cycles, when the engine drops it.
C1_RetryExhaustion ==
    \A a \in dropped : a.attempts = a.max_retries

\* C2: a cycle in which a failing execution brings an action's retries to
\* max_retries (3) returns success = False with a permanent-failure entry in
\* its errors.
C2_PermanentFailureReported ==
    (/\ pc = "return"
     /\ \E i \in 1..Len(Attempts) :
            /\ ~Attempts[i].ok
            /\ Attempts[i].action.retries + 1 = Attempts[i].action.max_retries)
    => (/\ result.success = FALSE
        /\ "Action failed permanently: exec error" \in Range(result.errors))

\* C3: when the main pass of a cycle is over, it has attempted every freshly
\* planned action exactly once, one after the other in non-decreasing
\* priority, whichever of them raised; during the pass exactly the actions
\* before the loop position have been attempted.
C3_MainPassOrder ==
    /\ pc = "main" => Len(MainEvents) = idx - 1
    /\ pc = "pending" =>
        LET planned == ComputeDiff(desired, actual) IN
        /\ Len(MainEvents) = Len(planned)
        /\ \A k \in 1..Len(planned) :
              Cardinality({i \in 1..Len(MainEvents) :
                              MainEvents[i].action = planned[k]}) = 1
    /\ \A i, j \in 1..Len(MainEvents) :
          i < j => MainEvents[i].action.priority <= MainEvents[j].action.priority

C3_Witness ==
    /\ pc = "pending"
    /\ \E i, j \in 1..Len(MainEvents) :
          /\ i < j
          /\ ~MainEvents[i].ok
          /\ MainEvents[i].action.priority < MainEvents[j].action.priority

\* C4: within a cycle no CREATE or UPDATE action is executed after a DELETE
\* action, main pass and pending pass together.
C4_DeletionsLast ==
    \A i, j \in 1..Len(Attempts) :
        (i < j /\ Attempts[i].action.action_type = "delete")
        => Attempts[j].action.action_type \notin {"create", "update"}

\* C5: when a CREATE VXLAN_TUNNEL action has just been executed, no CREATE VPC
\* or CREATE VRF action of the same VPC has failed in the cycle or waits for a
\* retry.
C5_PrerequisiteBeforeDependent ==
    (/\ Attempts # <<>>
     /\ Attempts[Len(Attempts)].ok
     /\ IsCreate(Attempts[Len(Attempts)].action, "vxlan_tunnel"))
    => LET tunnel == Attempts[Len(Attempts)].action IN
       /\ \A a \in Waiting :
             (IsCreate(a, "vpc") \/ IsCreate(a, "vrf")) => VpcOf(a) # VpcOf(tunnel)
       /\ \A i \in 1..Len(Attempts) :
             (/\ IsCreate(Attempts[i].action, "vpc") \/ IsCreate(Attempts[i].action, "vrf")
              /\ VpcOf(Attempts[i].action) = VpcOf(tunnel))
             => Attempts[i].ok

\* C6: no exception leaves reconcile(): a cycle that has started can always
\* take its next step up to the return, and a cycle whose fetch or planning
\* raised returns success = False with the exception's text in errors.
C6_CycleExceptionsCaught ==
    /\ pc # "sleep" => ENABLED EngineStep
    /\ (pc = "return" /\ \E e \in Range(log) : e.phase = "fetch")
        => (result.success = FALSE /\ "database error" \in Range(result.errors))
    /\ (pc = "return" /\ \E e \in Range(log) : e.phase = "plan")
        => (result.success = FALSE /\ "planning error" \in Range(result.errors))

C6_Witness ==
    /\ pc = "return"
    /\ \E e \in Range(log) : e.phase = "plan"
    /\ result.success = FALSE

\* C7: every exception that discovery or an execution raised in the cycle has
\* its entry in the cycle's errors.
C7_EveryExceptionRecorded ==
    Len(result.errors) >=
        Cardinality({i \in 1..Len(log) :
                        log[i].phase \in {"discover", "main", "pending"} /\ ~log[i].ok})

\* C8: a cycle whose discovery raised works on an empty actual snapshot.
C8_DiscoveryFailureEmptySnapshot ==
    (pc \in {"main", "pending", "return"} /\ \E e \in Range(log) : e.phase = "discover")
    => actual = EmptyState

\* C9: _compute_diff plans exactly one CREATE VPC action, of priority 10, for a
\* desired VPC that the actual snapshot lacks, and no VPC or VRF action at all
\* for a desired VPC whose actual record has the state hash of the desired one.
C9_DiffMinimality ==
    pc = "diffed" =>
        \A v \in DOMAIN desired.vpcs :
            /\ v \notin DOMAIN actual.vpcs =>
                /\ Cardinality({i \in 1..Len(actions) :
                        IsCreate(actions[i], "vpc") /\ actions[i].resource_id = v}) = 1
                /\ \A i \in 1..Len(actions) :
                      (IsCreate(actions[i], "vpc") /\ actions[i].resource_id = v)
                      => actions[i].priority = 10
            /\ (/\ v \in DOMAIN actual.vpcs
                /\ StateHash(desired.vpcs[v]) = StateHash(actual.vpcs[v])) =>
                \A i \in 1..Len(actions) :
                    /\ ~(/\ actions[i].resource_type = "vpc"
                         /\ actions[i].resource_id \in {v, desired.vpcs[v].vrf})
                    /\ ~(/\ actions[i].resource_type = "vrf"
                         /\ actions[i].resource_id = desired.vpcs[v].vrf)

C9_Witness ==
    /\ pc = "diffed"
    /\ \E v, w \in DOMAIN desired.vpcs :
          /\ v \notin DOMAIN actual.vpcs
          /\ \E i \in 1..Len(actions) :
                IsCreate(actions[i], "vpc") /\ actions[i].resource_id = v
          /\ w \in DOMAIN actual.vpcs
          /\ desired.vpcs[w] # actual.vpcs[w]
          /\ StateHash(desired.vpcs[w]) = StateHash(actual.vpcs[w])

\* C10: with no fault and no write to the database, a cycle plans neither a
\* CREATE nor an UPDATE VPC action for a desired VPC that an earlier cycle
\* realized and that discovery reports.
C10_QuiescenceAfterRealization ==
    (pc \in {"main", "pending", "return"} /\ faults = 0 /\ api_calls = 0)
    => \A v \in realized \cap DOMAIN desired.vpcs \cap DOMAIN actual.vpcs :
          \A a \in Range(actions) :
              ~(/\ a.resource_type = "vpc"
                /\ a.resource_id = v
                /\ a.action_type \in {"create", "update"})

\* The execution that the step at hand has added to the log.
Executed == log'[Len(log')]
Executes ==
    /\ pc \in {"main", "pending"}
    /\ Len(log') = Len(log) + 1

\* The number of planned actions on resource `rid` of type `rtype`.
Planned(rtype, rid) ==
    Cardinality({i \in 1..Len(actions) :
                    /\ actions[i].resource_type = rtype
                    /\ actions[i].resource_id = rid})

\* Exactly one action is planned on the resource: a CREATE of priority `prio`.
OneCreate(rtype, rid, prio) ==
    /\ Planned(rtype, rid) = 1
    /\ \E i \in 1..Len(actions) :
          /\ IsCreate(actions[i], rtype)
          /\ actions[i].resource_id = rid
          /\ actions[i].priority = prio

HasRule(node, rule) == \E i \in 1..Len(node.rules) : node.rules[i] = rule

\* C11: the sorted plan of a cycle whose actual snapshot is empty is exactly
\* one CREATE VPC (10) per desired VPC, one CREATE VRF (25) per desired VPC
\* with a vrf name, one CREATE VXLAN_TUNNEL (30) per desired VNI and one
\* CREATE ROUTE (50) per desired route, in non-decreasing priority, without
\* UPDATE or DELETE; for vpc-a alone: VPC vpc-a, VRF VRF-vpc-a, VXLAN vni-1003.
C11_EmptySnapshotPlan ==
    (pc = "main" /\ idx = 1 /\ actual = EmptyState) =>
        LET vpcs == DOMAIN desired.vpcs
            named == {v \in vpcs : desired.vpcs[v].vrf # ""}
        IN  /\ \A v \in vpcs : OneCreate("vpc", v, 10)
            /\ \A v \in named : OneCreate("vrf", desired.vpcs[v].vrf, 25)
            /\ \A t \in DOMAIN desired.vxlan_tunnels : OneCreate("vxlan_tunnel", t, 30)
            /\ \A r \in DOMAIN desired.routes : OneCreate("route", r, 50)
            /\ Len(actions) = Cardinality(vpcs) + Cardinality(named)
                                + Cardinality(DOMAIN desired.vxlan_tunnels)
                                + Cardinality(DOMAIN desired.routes)
            /\ \A i \in 1..Len(actions) : actions[i].action_type = "create"
            /\ \A i, j \in 1..Len(actions) :
                  i < j => actions[i].priority <= actions[j].priority
            /\ (vpcs = {"vpc-a"} /\ DOMAIN desired.routes = {}) =>
                  [i \in 1..Len(actions) |->
                      <<actions[i].resource_type, actions[i].resource_id>>]
                  = << <<"vpc", "vpc-a">>, <<"vrf", "VRF-vpc-a">>,
                       <<"vxlan_tunnel", "vni-1003">> >>

C11_Witness ==
    /\ pc = "main"
    /\ idx = 1
    /\ actual = EmptyState
    /\ DOMAIN desired.vpcs = VpcIds
    /\ DOMAIN desired.routes = RouteIds
    /\ Len(actions) = 7

\* C12: the plan of every cycle holds exactly one CREATE ROUTE action of
\* priority 50 for each desired route, also when earlier cycles executed one,
\* and never an UPDATE or a DELETE of a route.
C12_RouteCreateOnly ==
    pc \in {"main", "pending"} =>
        /\ \A r \in DOMAIN desired.routes : OneCreate("route", r, 50)
        /\ \A i \in 1..Len(actions) :
              actions[i].resource_type = "route" => actions[i].action_type = "create"

C12_Witness ==
    /\ pc = "main"
    /\ idx = 1
    /\ "rtb-1" \in realized
    /\ OneCreate("route", "rtb-1", 50)

\* C13: after a discovery without fault, a desired VPC is in the actual
\* snapshot under its id exactly when leaf-1 has its VRF device or a reject
\* rule of leaf-1's FORWARD chain refers to its CIDR.
C13_AvailableIffVrfOrRejectRule ==
    (pc = "main" /\ idx = 1 /\ faults = 0) =>
        LET node == fabric["leaf-1"] IN
        \A v \in DOMAIN desired.vpcs :
            v \in DOMAIN actual.vpcs
            <=> /\ "leaf-1" \in reachable
                /\ \/ desired.vpcs[v].vrf \in node.vrfs
                   \/ \E i \in 1..Len(node.rules) :
                         /\ node.rules[i].target = "REJECT"
                         /\ desired.vpcs[v].cidr \in {node.rules[i].src,
                                                      node.rules[i].dst}

C15_UnsupportedVrfIsNoFailure ==
    [][(/\ Executes
        /\ Executed.ok
        /\ IsCreate(Executed.action, "vrf")
        /\ reachable \ vrf_supported # {})
       => /\ Len(result'.actions_taken) = Len(result.actions_taken) + 1
          /\ result'.actions_taken[Len(result'.actions_taken)].resource_id
                = Executed.action.resource_id
          /\ result'.errors = result.errors
          /\ result'.success = result.success
          /\ pending_actions' = pending_actions
          /\ remaining' = remaining
          /\ \A s \in reachable \cap vrf_supported :
                Executed.action.resource_id \in fabric'[s].vrfs]_vars

C15_Witness ==
    /\ \E i \in 1..Len(Attempts) :
          /\ Attempts[i].ok
          /\ IsCreate(Attempts[i].action, "vrf")
          /\ Attempts[i].action.resource_id = "VRF-vpc-a"
    /\ "leaf-2" \in reachable \ vrf_supported
    /\ "VRF-vpc-a" \notin fabric["leaf-2"].vrfs
    /\ "VRF-vpc-a" \in fabric["leaf-3"].vrfs
    /\ result.errors = <<>>
    /\ pending_actions = <<>>

\* The representative switch already holds what a CREATE of `action` installs.
Contains(action) ==
    LET node == fabric["leaf-1"]
        now == FetchDesiredState(vpc_rows, route_rows)
    IN CASE action.resource_type = "vrf" -> action.resource_id \in node.vrfs
         [] action.resource_type = "vxlan_tunnel" ->
                action.target_state.vni \in node.vxlans
         [] action.resource_type = "vpc" ->
                \A w \in DOMAIN now.vpcs \ {action.resource_id} :
                    /\ HasRule(node, RejectRule(action.target_state.cidr,
                                                now.vpcs[w].cidr))
                    /\ HasRule(node, RejectRule(now.vpcs[w].cidr,
                                                action.target_state.cidr))
         [] OTHER -> FALSE

\* C17: with the desired state unchanged, a CREATE action that is executed
\* again after it has succeeded, or whose resource the fabric already holds,
\* raises no error and leaves what discovery reports unchanged.
C17_CreateIdempotent ==
    [][(/\ Executes
        /\ Executed.ok
        /\ Executed.action.action_type = "create"
        /\ api_calls = 0
        /\ Executed.again \/ Contains(Executed.action))
       => LET now == FetchDesiredState(vpc_rows, route_rows) IN
          /\ DiscoverActualState(now, fabric', reachable, "ok")
                = DiscoverActualState(now, fabric, reachable, "ok")
          /\ result'.errors = result.errors
          /\ result'.success = result.success]_vars

C17_Witness ==
    /\ api_calls = 0
    /\ \A rtype \in {"vpc", "vrf", "vxlan_tunnel", "route"} :
          \E i \in 1..Len(Attempts) :
              Attempts[i].again /\ IsCreate(Attempts[i].action, rtype)

\* C16: every create/add/delete primitive of NetlinkManager is idempotent: a
\* call that is issued again with the same arguments, on the state its first
\* issue has left, raises nothing and leaves the registries namespaces,
\* vxlan_devices and veth_pairs as the first issue left them.
C16_NetlinkIdempotent ==
    \A call \in NetlinkCalls :
        LET first == ApplyNetlinkCall(call, netlink, kernel)
            second == ApplyNetlinkCall(call, first.netlink, first.kernel)
        IN /\ second.raised = NoException
           /\ second.netlink = first.netlink

C16_Witness ==
    /\ last_call.again
    /\ last_call.call.op = "create_veth_pair"
    /\ last_call.call.namespace = "ns-a"
    /\ last_call.raised = NoException
    /\ "veth0" \in DOMAIN netlink.veth_pairs
    /\ "ns-a" \in DOMAIN netlink.namespaces
    /\ "vxlan100" \in DOMAIN netlink.vxlan_devices
    /\ LinkIn(kernel, "ns-a", "veth0-peer")

Diffed == last_call.call.op = "diff_configs"

\* The whole non-blank, non-comment lines of a text.
WholeLines(text) == {text[i] : i \in {j \in 1..Len(text) : IsCommand(text[j])}}

\* C18: diff_configs(X, X) returns no command, for every text X and so for
\* every rendered configuration.
C18_DiffOfEqualTextsEmpty ==
    (Diffed /\ config_texts.current = config_texts.desired)
    => commands = EmptyBag

C18_Witness ==
    /\ Diffed
    /\ config_texts.current = config_texts.desired
    /\ config_texts.current \in RenderedTexts
    /\ Len(config_texts.current) > 60
    /\ commands = EmptyBag

\* C19: diff_configs returns exactly one "no <line>" for every whole
\* non-blank, non-comment line of current that desired lacks and exactly one
\* "<line>" for every such line of desired that current lacks, whatever the
\* order and the repetition of the lines in the two texts.
C19_DiffIsLineSetDifference ==
    Diffed =>
        LET current_lines == WholeLines(config_texts.current)
            desired_lines == WholeLines(config_texts.desired)
        IN commands = CommandsOf(current_lines \ desired_lines, <<"no">>)
                      (+) CommandsOf(desired_lines \ current_lines, <<>>)

\* C20: assign_role on a MAC address that is not in the inventory raises the
\* not-in-inventory error and leaves the inventory as it was; on a known MAC
\* address it sets role, rack_id and position as given, hostname to the role
\* followed by the position, and status to "assigned".
C20_AssignRole ==
    [][ LET call == last_call'.call
        IN call.op = "assign_role" =>
            IF call.mac_address \notin DOMAIN inventory
            THEN /\ last_call'.raised = NotInInventory
                 /\ inventory' = inventory
            ELSE LET device == inventory'[call.mac_address]
                 IN /\ last_call'.raised = NoException
                    /\ device["role"] = call.role
                    /\ device["rack_id"] = call.rack_id
                    /\ device["position"] = call.position
                    /\ device["hostname"]
                         = call.role \o (IF call.position = 1 THEN "1" ELSE "2")
                    /\ device["status"] = "assigned" ]_vars

C20_Witness ==
    /\ last_call.call.op = "assign_role"
    /\ last_call.raised = NotInInventory
    /\ \E mac_address \in DOMAIN inventory :
          /\ inventory[mac_address]["status"] = "assigned"
          /\ inventory[mac_address]["hostname"] = "spine2"
          /\ inventory[mac_address]["rack_id"] = "rack-1"

Provisions == last_call.call.op = "provision_device"

\* The switch table of a topology: topology.get("switches", {}).
SwitchTable(topology) == Get(topology, "switches", EmptyMap)

\* C21: provision_device raises and leaves the entry (its status and its
\* stored config with it) as it was whenever the MAC address is unknown, the
\* entry's status is not "assigned", or the entry's hostname is not in the
\* topology's switch table.
C21_ProvisionFails ==
    [][ LET call == last_call'.call
        IN (/\ call.op = "provision_device"
            /\ \/ call.mac_address \notin DOMAIN inventory
               \/ inventory[call.mac_address]["status"] # "assigned"
               \/ inventory[call.mac_address]["hostname"]
                    \notin DOMAIN SwitchTable(call.topology))
           => /\ last_call'.raised # NoException
              /\ DOMAIN inventory' = DOMAIN inventory
              /\ \A mac_address \in DOMAIN inventory :
                    inventory'[mac_address] = inventory[mac_address] ]_vars

C21_Witness ==
    /\ Provisions
    /\ last_call.raised = NotAssigned
    /\ inventory[last_call.call.mac_address]["status"] = "provisioned"
    /\ "leaf1" \in DOMAIN SwitchTable(last_call.call.topology)
    /\ SwitchTable(last_call.call.topology)["leaf1"] # EmptyMap
    /\ inventory[last_call.call.mac_address]["hostname"] = "leaf1"

\* C22: after a provision_device call that raised nothing the entry has
\* status "provisioned" and stores a non-empty config text, the text of the
\* SwitchConfig returned, which is rendered for the entry's hostname.
C22_ProvisionStoresConfig ==
    (Provisions /\ last_call.raised = NoException) =>
        LET device == inventory[last_call.call.mac_address]
            config == last_call.returned
        IN /\ device["status"] = "provisioned"
           /\ \E i \in 1..Len(device["config"]) : IsCommand(device["config"][i])
           /\ device["config"] = config.config_text
           /\ config.hostname = device["hostname"]
           /\ \E i \in 1..Len(device["config"]) :
                 device["config"][i] = ConfigLine(0, <<"hostname", device["hostname"]>>)

C22_Witness ==
    /\ Provisions
    /\ last_call.raised = NoException
    /\ inventory[last_call.call.mac_address]["status"] = "provisioned"
    /\ inventory[last_call.call.mac_address]["hostname"] = "spine1"
    /\ Len(inventory[last_call.call.mac_address]["config"]) > 20

\* discovered < assigned < provisioned
StatusRank(status) ==
    IF status = "discovered" THEN 1 ELSE IF status = "assigned" THEN 2 ELSE 3

\* C23: over any sequence of discover_device, assign_role and
\* provision_device calls the status of an inventory entry never moves
\* backward in the order discovered < assigned < provisioned.
C23_ForwardOnly ==
    [][ \A mac_address \in DOMAIN inventory :
          /\ mac_address \in DOMAIN inventory'
          /\ StatusRank(inventory'[mac_address]["status"])
               >= StatusRank(inventory[mac_address]["status"]) ]_vars

\* C24: after create_vxlan(name, ...) has returned, the device called name
\* is administratively up, also when a device of that name existed before.
C24_VxlanUpAfterCreate ==
    (last_call.call.op = "create_vxlan" /\ last_call.raised = NoException) =>
        \E l \in kernel.links :
            l.ns = RootNs /\ l.name = last_call.call.name /\ l.up

\* C25: get_next_vni returns a VNI no earlier call returned, the first being
\* 1003 and each one the previous plus one, also when calls made through
\* different database sessions interleave.
C25_VniUniqueIncreasing ==
    \A i \in 1..Len(db_sessions.returned) :
        db_sessions.returned[i] = FirstVni + (i - 1)

\* The action as the except branch leaves it: action.retries += 1.
Queued(action) == [action EXCEPT !.attempts = @ + 1, !.retries = @ + 1]

\* C26: the pending pass at the end of a cycle attempts only actions queued
\* in earlier cycles, never the action that a failure of the main pass of the
\* same cycle has queued.
C26_PendingFromPriorCycles ==
    \A i, j \in 1..Len(log) :
        (log[i].phase = "main" /\ ~log[i].ok /\ log[j].phase = "pending")
        => log[j].action # Queued(log[i].action)

\* C27: within one cycle at most one action is executed per resource kind
\* and resource id, the planned actions and the actions of the pending list
\* taken together.
C27_OneActionPerResource ==
    \A i, j \in 1..Len(log) :
        (/\ i < j
         /\ log[i].phase \in {"main", "pending"}
         /\ log[j].phase \in {"main", "pending"})
        => <<log[i].action.resource_type, log[i].action.resource_id>>
             # <<log[j].action.resource_type, log[j].action.resource_id>>

\* The attempts of this cycle's pending pass that failed, in order.
FailedRetries == SelectSeq(log, LAMBDA e : e.phase = "pending" /\ ~e.ok)

\* C28: when the pending pass of a cycle ends, pending_actions holds exactly
\* the actions whose retry failed in that pass, each with one retry more and
\* never more than max_retries + 1: an action whose retry succeeded is gone
\* in that cycle, and one that fails every time is gone after finitely many
\* cycles.
C28_PendingShrinks ==
    [][ (pc = "pending" /\ pc' = "return") =>
          /\ pending_actions' =
                [k \in 1..Len(FailedRetries) |-> Queued(FailedRetries[k].action)]
          /\ \A k \in 1..Len(pending_actions') :
                /\ pending_actions'[k].retries <= max_retries + 1
                /\ \E i \in 1..Len(pending_actions) :
                      /\ pending_actions'[k] = Queued(pending_actions[i])
                      /\ pending_actions[i].retries <= max_retries ]_vars

C28_Witness ==
    /\ pc = "return"
    /\ pending_actions = <<>>
    /\ \E a \in dropped : a.retries = max_retries + 1 /\ a.attempts = max_retries + 1

\* C29: the plan holds a DELETE VPC action for an id, and then one of
\* priority 200, exactly when the id is a key of the actual VPC snapshot and
\* is neither the id nor the vrf name of a desired VPC.
C29_DeleteIff ==
    pc = "diffed" =>
        \A k \in VpcIds \cup VrfNames :
            LET deletes == {i \in 1..Len(actions) :
                               /\ actions[i].action_type = "delete"
                               /\ actions[i].resource_type = "vpc"
                               /\ actions[i].resource_id = k}
            IN /\ (deletes # {}) <=>
                    (/\ k \in DOMAIN actual.vpcs
                     /\ k \notin DOMAIN desired.vpcs
                     /\ \A v \in DOMAIN desired.vpcs : desired.vpcs[v].vrf # k)
               /\ \A i \in deletes : actions[i].priority = 200
               /\ \A i \in 1..Len(actions) :
                     actions[i].action_type = "delete"
                     => actions[i].resource_id \in DOMAIN actual.vpcs

C29_Witness ==
    /\ pc = "diffed"
    /\ "VRF-vpc-a" \in DOMAIN actual.vpcs
    /\ "VRF-vpc-b" \in DOMAIN actual.vpcs
    /\ DOMAIN desired.vpcs = {"vpc-a"}
    /\ \E i \in 1..Len(actions) :
          actions[i].action_type = "delete" /\ actions[i].resource_id = "VRF-vpc-b"
    /\ \A i \in 1..Len(actions) :
          actions[i].action_type = "delete" => actions[i].resource_id # "VRF-vpc-a"

\* C30: the plan holds a CREATE VRF action for a desired VPC, of priority 25
\* and with the vrf name as resource_id, exactly when the VPC has a vrf name
\* and neither its id nor its vrf name is a key of the actual VPC snapshot.
C30_CreateVrfIff ==
    pc = "diffed" =>
        /\ \A v \in DOMAIN desired.vpcs :
              LET creates == {i \in 1..Len(actions) :
                                 /\ IsCreate(actions[i], "vrf")
                                 /\ actions[i].target_state = desired.vpcs[v]}
              IN /\ (creates # {}) <=>
                      (/\ desired.vpcs[v].vrf # ""
                       /\ v \notin DOMAIN actual.vpcs
                       /\ desired.vpcs[v].vrf \notin DOMAIN actual.vpcs)
                 /\ \A i \in creates :
                       /\ actions[i].priority = 25
                       /\ actions[i].resource_id = desired.vpcs[v].vrf
        /\ \A i \in 1..Len(actions) :
              actions[i].resource_type = "vrf"
              => /\ actions[i].action_type = "create"
                 /\ \E v \in DOMAIN desired.vpcs :
                       actions[i].target_state = desired.vpcs[v]

C30_Witness ==
    /\ pc = "diffed"
    /\ DOMAIN desired.vpcs = VpcIds
    /\ DOMAIN actual.vpcs = {"VRF-vpc-a"}
    /\ \E i \in 1..Len(actions) :
          IsCreate(actions[i], "vrf") /\ actions[i].resource_id = "VRF-vpc-b"
    /\ \A i \in 1..Len(actions) :
          IsCreate(actions[i], "vrf") => actions[i].resource_id # "VRF-vpc-a"

\* The fabrics that agree with fabric on leaf-1, and the sets of reachable
\* switches that agree with reachable on leaf-1.
OtherNodeStates ==
    {EmptyNode,
     [vrfs |-> VrfNames, vxlans |-> Vnis,
      rules |-> <<RejectRule(Cidr("vpc-a"), Cidr("vpc-b")),
                  RejectRule(Cidr("vpc-b"), Cidr("vpc-a"))>>]}

SameOnLeaf1 ==
    {[s \in SwitchSet |-> IF s = "leaf-1" THEN fabric["leaf-1"] ELSE others[s]] :
        others \in [SwitchSet \ {"leaf-1"} -> OtherNodeStates]}

ReachableSameOnLeaf1 ==
    {up \in SUBSET SwitchSet : ("leaf-1" \in up) <=> ("leaf-1" \in reachable)}

\* C31: the snapshot that discovery returns, and the plan computed from it,
\* are those of every fabric that agrees with the real one on leaf-1 (its
\* devices, its rules, its reachability and the outcome of its two queries),
\* whatever the other nodes hold and whether they are reachable.
C31_SingleNodeDiscovery ==
    [][ (pc = "sleep" /\ pc' = "main") =>
          \A query \in DiscoveryQueries :
              actual' = DiscoverActualState(desired', fabric, reachable, query)
              => \A fab \in SameOnLeaf1, up \in ReachableSameOnLeaf1 :
                    /\ DiscoverActualState(desired', fab, up, query) = actual'
                    /\ SortedByPriority(ComputeDiff(
                            desired', DiscoverActualState(desired', fab, up, query)))
                         = actions' ]_vars

C31_Witness ==
    /\ pc = "main"
    /\ idx = 1
    /\ actions # <<>>
    /\ actual # EmptyState
    /\ fabric["leaf-2"] # fabric["leaf-1"]
    /\ fabric["leaf-2"].vxlans # {}

\* C32: when a CREATE VPC action has run over all switches, every reachable
\* switch holds the same set of reject rules, whatever writes the API made
\* to the database while the action ran.
C32_SameRulesOnEveryNode ==
    pc = "applied" =>
        \A s, t \in reachable : Range(fabric[s].rules) = Range(fabric[t].rules)

\* C33: an execution of CREATE VXLAN_TUNNEL or CREATE VRF while some switch is
\* unreachable (the creation command raises "Container ... not found" there)
\* is a failed attempt: it is not counted as taken and the action is requeued.
C33_FailedNodeFailsAction ==
    [][ ( /\ Executes
          /\ Executed.action.action_type = "create"
          /\ Executed.action.resource_type \in {"vxlan_tunnel", "vrf"}
          /\ reachable # SwitchSet )
        => /\ ~Executed.ok
           /\ result'.actions_taken = result.actions_taken ]_vars

\* C34: a cycle that starts with every switch reachable repairs the switches
\* that missed a creation: for each desired tunnel the engine has created
\* before and that some switch still lacks, the cycle plans a CREATE
\* VXLAN_TUNNEL or holds one in the pending list.
C34_MissedNodeRepaired ==
    (pc = "main" /\ idx = 1 /\ reachable = SwitchSet) =>
        \A t \in DOMAIN desired.vxlan_tunnels :
            ( /\ t \in realized
              /\ \E s \in SwitchSet : desired.vxlan_tunnels[t].vni \notin fabric[s].vxlans )
            => \E a \in Range(actions) \cup Range(pending_actions) :
                    IsCreate(a, "vxlan_tunnel") /\ a.resource_id = t

\* C35: after a successful DELETE VPC the id is gone from the fabric: a
\* discovery right after the execution no longer returns the id, and the diff
\* against the same desired state plans no DELETE for it.
C35_DeleteConverges ==
    [][ ( /\ Executes
          /\ Executed.action.action_type = "delete"
          /\ Executed.action.resource_type = "vpc"
          /\ Executed.ok )
        => LET act == DiscoverActualState(desired, fabric', reachable, "ok")
               plan == ComputeDiff(desired, act)
           IN  /\ Executed.action.resource_id \notin DOMAIN act.vpcs
               /\ \A i \in 1..Len(plan) :
                     ~ ( /\ plan[i].action_type = "delete"
                         /\ plan[i].resource_id = Executed.action.resource_id ) ]_vars

\* C36: no switch holds the same isolation rule twice: the FORWARD chain of
\* every switch has no two REJECT rules with the same source and destination.
C36_NoDuplicateRule ==
    \A s \in SwitchSet :
        \A i, j \in 1..Len(fabric[s].rules) :
            ( /\ i # j
              /\ fabric[s].rules[i].target = "REJECT" )
            => fabric[s].rules[i] # fabric[s].rules[j]

\* C37: an execution of CREATE ROUTE or of UPDATE VPC leaves every switch as
\* it was, and when it does not raise the action is appended to actions_taken.
C37_PrintOnlyActions ==
    [][ ( /\ Executes
          /\ \/ IsCreate(Executed.action, "route")
             \/ ( /\ Executed.action.action_type = "update"
                  /\ Executed.action.resource_type = "vpc" ) )
        => /\ fabric' = fabric
           /\ Executed.ok =>
                 /\ Len(result'.actions_taken) = Len(result.actions_taken) + 1
                 /\ LET taken == result'.actions_taken[Len(result'.actions_taken)]
                    IN  /\ taken.action_type = Executed.action.action_type
                        /\ taken.resource_type = Executed.action.resource_type
                        /\ taken.resource_id = Executed.action.resource_id ]_vars
C37_Witness ==
    /\ \E a \in Range(result.actions_taken) : IsCreate(a, "route")
    /\ \E a \in Range(result.actions_taken) :
          a.action_type = "update" /\ a.resource_type = "vpc"
    /\ \E s \in SwitchSet : fabric[s] # EmptyNode

\* C38: an inventory entry that holds a config text has status "provisioned",
\* and the text is the one rendered for the entry's current hostname: it has
\* the line "hostname <hostname>".
C38_ConfigOfCurrentHostname ==
    \A mac_address \in DOMAIN inventory :
        LET device == inventory[mac_address]
        IN "config" \in DOMAIN device =>
              /\ device["status"] = "provisioned"
              /\ \E i \in 1..Len(device["config"]) :
                    device["config"][i] = ConfigLine(0, <<"hostname", device["hostname"]>>)

\* C39: once stop() has been called, the loop of run() starts at most one
\* more reconcile cycle, whatever the order of stop() and the first
\* statement of run().
C39_StopEndsLoop ==
    run_loop.stopped => run_loop.after_stop <= 1

====
